---- MODULE Spec2Model ----
(***************************************************************************)
(* Verification model of the openpaw security wrapper.                    *)
(*                                                                         *)
(* Part I  : the mediated tool proxy (mcp-proxy): RateLimiter, logAudit,   *)
(*           createMcpHandler and createStdioServer.                       *)
(* Part II : the credential vault (packages/vault): encrypt/decrypt,       *)
(*           generateCredentialId and the Vault class with its file.       *)
(***************************************************************************)
EXTENDS Naturals, Integers, Sequences, FiniteSets, TLC

VARIABLES
    now,          \* the wall clock read by Date.now() / new Date()
    policyConfig, \* the proxy's PolicyConfig
    requests,     \* RateLimiter.requests: tool name -> list of timestamps
    calls,        \* one entry per request line, in arrival order: the handler's position
    auditLog,     \* the audit file: the lines appended so far, in file order
    stdout,       \* the response lines written so far
    key,          \* Vault.key
    store,        \* Vault.store.credentials (version is always 1)
    disk,         \* the vault file: whether it exists and the tokens written to it
    vault,        \* the vault process: position of the running operation and its record
    imported,     \* history: the imports that returned, as <<id, value>>, minus deleted ids
    session,      \* the SecureSessionStore object: ramDir, flushTimer, _isOpen and its options
    scratch,      \* the scratch (RAM) directory: whether it exists and its files
    vaultFile,    \* <accountId>.vault: whether it exists and the encrypted blob it holds
    tmpFile,      \* <accountId>.vault.tmp, the file flush() writes before renaming
    timers,       \* the interval timers that are set and not cleared
    flushes,      \* the flush() calls that are suspended, with what each has packed
    closing,      \* the close() call: its position and what it has still to wipe
    trace,        \* history of the session store: calls made and what they saw
    credentialStore, \* the proxy's CredentialStore: reference id -> plaintext
    exchange,     \* one value on its way through injectCredentials and redactTokens
    launcher,     \* the launcher process of startGateway: cleanup flag, child, exit
    gateway       \* the startup pipeline of startGateway: profile file, vault view, childEnv

proxyVars == <<policyConfig, requests, calls, auditLog, stdout>>
vaultVars == <<key, store, disk, vault, imported>>
sessionVars == <<session, scratch, vaultFile, tmpFile, timers, flushes, closing, trace>>
textVars == <<credentialStore, exchange>>
launcherVars == <<launcher, gateway>>
vars == <<now, policyConfig, requests, calls, auditLog, stdout, key, store, disk, vault,
          imported, session, scratch, vaultFile, tmpFile, timers, flushes, closing, trace,
          credentialStore, exchange, launcher, gateway>>

(***************************************************************************)
(* Bounds of the model.                                                    *)
(***************************************************************************)
MaxReq == 2        \* request lines fed to the stdio server
MaxTime == 2       \* the clock runs over 0..MaxTime
MaxLimit == 2      \* rateLimit is drawn from 1..MaxLimit
MaxWindow == 2     \* rateLimitWindow is drawn from 1..MaxWindow
MaxOps == 3        \* import and delete calls made on the vault
MaxDocLen == 3     \* tokens of a vault document found on disk
MaxSessionOps == 5 \* calls, timer ticks and library writes on the session store
MaxBuf == 6        \* bytes of a packed buffer found in a session vault
MaxPieces == 4     \* pieces a text to redact is put together from
MaxText == 3       \* pieces a text with references is put together from
MaxValue == 2      \* pieces a stored plaintext is put together from
MaxProfiles == 2   \* profiles of an auth-profiles file
MaxChecks == 4     \* calls of RateLimiter.check
MaxStoreOps == 3   \* open, close and importFromPlaintext calls in the overlap model
MaxRuns == 2       \* runs of the launcher on the same profile files
MaxConnections == 2 \* connections open on the proxy server of the launcher

(***************************************************************************)
(* Part I.  The tool proxy.                                                *)
(***************************************************************************)
ToolNames == {"limited-tool", "dangerous-tool"}
blockedTools == {"dangerous-tool"}
Methods == {"tools/call", "tools/list"}

\* createMcpHandler, line 168: the blocklist check.
IsBlockedNever(tool) == FALSE
IsBlocked(tool) == tool \in policyConfig.blockedTools

\* RateLimiter.check, line 63: the timestamps that are still inside the window.
validTimestampsKeepAll(k, t) == requests[k]
validTimestamps(k, t) ==
    LET inWindow(ts) == t - ts < policyConfig.rateLimitWindow
    IN  SelectSeq(requests[k], inWindow)

\* RateLimiter.check, the value returned.
RateLimiterCheckOffByOne(k, t) == Len(validTimestamps(k, t)) <= policyConfig.rateLimit
RateLimiterCheck(k, t) == Len(validTimestamps(k, t)) < policyConfig.rateLimit

\* RateLimiter.check, the map after the call: set only when the call passes.
RateLimiterAfterShared(k, t) ==
    IF RateLimiterCheck(k, t)
    THEN [j \in DOMAIN requests |-> Append(validTimestamps(j, t), t)]
    ELSE requests
RateLimiterAfter(k, t) ==
    IF RateLimiterCheck(k, t)
    THEN [requests EXCEPT ![k] = Append(validTimestamps(k, t), t)]
    ELSE requests

\* The JSON-RPC responses of createMcpHandler.
ResultResponse(id, tool) ==
    [id |-> id, code |-> 0, message |-> <<"success", tool>>]
ListResponse(id) ==
    [id |-> id, code |-> 0, message |-> <<"tools">>]
BlockedResponse(id, tool) ==
    [id |-> id, code |-> -32000, message |-> <<"Tool", tool, "is blocked by policy">>]
RateLimitResponse(id) ==
    [id |-> id, code |-> 429, message |-> <<"Rate limit exceeded">>]
InternalErrorResponse(id) ==
    [id |-> id, code |-> -32603, message |-> <<"Internal error">>]

ResponseFor(id, tool, status) ==
    CASE status = "blocked" -> BlockedResponse(id, tool)
      [] status = "rate_limited" -> RateLimitResponse(id)
      [] OTHER -> ResultResponse(id, tool)

\* logAudit, line 137: the line appended for an entry; req is the arrival index of
\* the request the entry belongs to (history, not part of the line).
AuditLine(req, tool, status, timestamp) ==
    [method |-> "tools/call", tool |-> tool, status |-> status,
     timestamp |-> timestamp, req |-> req]

\* The accepted calls to a tool whose timestamps are still inside the window at t,
\* counted over the whole history of the handler (not over the limiter's list).
AcceptedInWindow(tool, t) ==
    {j \in 1..Len(calls) :
        /\ calls[j].tool = tool
        /\ calls[j].passedAt >= 0
        /\ t - calls[j].passedAt < policyConfig.rateLimitWindow}

NewCall(method, tool, pc, status, passedAt, inWindow) ==
    [method |-> method, tool |-> tool, pc |-> pc, status |-> status,
     passedAt |-> passedAt, inWindow |-> inWindow, ts |-> -1, auditFailed |-> FALSE]

ProxyInit ==
    /\ policyConfig \in [rateLimit : 1..MaxLimit, rateLimitWindow : 1..MaxWindow,
                         blockedTools : {blockedTools}]
    /\ requests = [k \in ToolNames |-> <<>>]
    /\ calls = <<>>
    /\ auditLog = <<>>
    /\ stdout = <<>>

\* A request line arrives (createStdioServer, 'line' event) and the handler runs to
\* its first suspension: tools/list answers at once; tools/call passes the blocklist
\* check and the rate check and suspends in logAudit or in injectCredentials.
Arrive ==
    /\ Len(calls) < MaxReq
    /\ \E method \in Methods, tool \in ToolNames :
        LET id == Len(calls) + 1
            inWin == Cardinality(AcceptedInWindow(tool, now))
        IN  IF method # "tools/call"
            THEN /\ tool = "limited-tool"   \* tools/list names no tool: one case
                 /\ calls' = Append(calls, NewCall(method, "", "done", "none", -1, 0))
                 /\ stdout' = Append(stdout, ListResponse(id))
                 /\ UNCHANGED requests
            ELSE IF IsBlocked(tool)
            THEN /\ calls' = Append(calls,
                        NewCall(method, tool, "mkdir", "blocked", -1, inWin))
                 /\ UNCHANGED <<requests, stdout>>
            ELSE IF ~RateLimiterCheck(tool, now)
            THEN /\ requests' = RateLimiterAfter(tool, now)
                 /\ calls' = Append(calls,
                        NewCall(method, tool, "mkdir", "rate_limited", -1, inWin))
                 /\ UNCHANGED stdout
            ELSE /\ requests' = RateLimiterAfter(tool, now)
                 /\ calls' = Append(calls,
                        NewCall(method, tool, "inject", "success", now, inWin))
                 /\ UNCHANGED stdout
    /\ UNCHANGED <<now, launcherVars, policyConfig, auditLog, vaultVars, sessionVars, textVars>>

\* injectCredentials: a credentialStore.get of the walk rejects (the params hold
\* any number of references); the handler's catch answers.
LookupFail(i) ==
    /\ calls[i].pc = "inject"
    /\ calls' = [calls EXCEPT ![i].pc = "done", ![i].status = "error"]
    /\ stdout' = Append(stdout, InternalErrorResponse(i))
    /\ UNCHANGED <<now, launcherVars, policyConfig, requests, auditLog, vaultVars, sessionVars, textVars>>

\* injectCredentials has walked the params (every credentialStore.get resolved);
\* the result is redacted and logAudit is called with status success (suspends
\* in mkdir).
InjectDone(i) ==
    /\ calls[i].pc = "inject"
    /\ calls' = [calls EXCEPT ![i].pc = "mkdir"]
    /\ UNCHANGED <<now, launcherVars, policyConfig, requests, auditLog, stdout, vaultVars, sessionVars, textVars>>

\* logAudit: mkdir resolves, the timestamp is taken and appendFile is started.
MkdirDone(i) ==
    /\ calls[i].pc = "mkdir"
    /\ calls' = [calls EXCEPT ![i].pc = "append", ![i].ts = now]
    /\ UNCHANGED <<now, launcherVars, policyConfig, requests, auditLog, stdout, vaultVars, sessionVars, textVars>>

\* logAudit: mkdir or appendFile rejects; the handler's catch answers.
AuditFail(i) ==
    /\ calls[i].pc \in {"mkdir", "append"}
    /\ calls' = [calls EXCEPT ![i].pc = "done", ![i].auditFailed = TRUE]
    /\ stdout' = Append(stdout, InternalErrorResponse(i))
    /\ UNCHANGED <<now, launcherVars, policyConfig, requests, auditLog, vaultVars, sessionVars, textVars>>

\* logAudit: appendFile resolves: the line is in the file; the handler returns its
\* response and the stdio server writes it.
AppendDone(i) ==
    /\ calls[i].pc = "append"
    /\ auditLog' = Append(auditLog,
            AuditLine(i, calls[i].tool, calls[i].status, calls[i].ts))
    /\ calls' = [calls EXCEPT ![i].pc = "done"]
    /\ stdout' = Append(stdout, ResponseFor(i, calls[i].tool, calls[i].status))
    /\ UNCHANGED <<now, launcherVars, policyConfig, requests, vaultVars, sessionVars, textVars>>

\* Time passes.
Tick ==
    /\ now < MaxTime
    /\ now' = now + 1
    /\ UNCHANGED <<launcherVars, proxyVars, vaultVars, sessionVars, textVars>>


(***************************************************************************)
(* Part II.  The credential vault.                                         *)
(***************************************************************************)
Services == {"openai"}
CredentialTypes == {"api_key"}
\* The alphabets the random and the secret values are drawn from.
Hashes == {0, 1}
Plaintexts == {0, 1}
IVs == {0, 1}
Keys == {1}

\* AES-256-GCM over a small alphabet: the key stream and the tag depend on the
\* key and the iv; the cipher text is the plaintext shifted by the key stream.
CipherModulus == 2 * Cardinality(Plaintexts) + 1
KeyStream(k, iv) == (2 * k + iv) % CipherModulus
AuthTag(k, iv, ct) == (k * (ct + 1) + iv) % CipherModulus

\* encrypt: iv || authTag || ciphertext, for the iv drawn by randomBytes.
encrypt(plaintext, k, iv) ==
    LET ct == (plaintext + KeyStream(k, iv)) % CipherModulus
    IN  [iv |-> iv, authTag |-> AuthTag(k, iv, ct), ciphertext |-> ct]

\* decrypt: the plaintext, or the failure of decipher.final when the tag does
\* not verify.
decrypt(blob, k) ==
    IF blob.authTag # AuthTag(k, blob.iv, blob.ciphertext)
    THEN [ok |-> FALSE, plaintext |-> 0]
    ELSE [ok |-> TRUE,
          plaintext |-> (blob.ciphertext + CipherModulus - KeyStream(k, blob.iv))
                            % CipherModulus]

\* generateCredentialId: cred_<service>_<type>_<hash>, for the hash the digest of
\* the time and the random bytes comes to.
generateCredentialId(service, type, hash) ==
    [service |-> service, type |-> type, hash |-> hash]

CredentialIds == [service : Services, type : CredentialTypes, hash : Hashes]

\* The vault file: absent (ENOENT), or present with the tokens written so far.
NoFile == [exists |-> FALSE, content |-> <<>>]
File(content) == [exists |-> TRUE, content |-> content]

\* The vault document as written by JSON.stringify: an opening token carrying
\* the version, one token per credential in order, a closing token.
NoCredential == [id |-> "none"]
Token(tok, version, cred) == [tok |-> tok, version |-> version, cred |-> cred]
Serialize(st) ==
    <<Token("open", 1, NoCredential)>>
    \o [i \in 1..Len(st) |-> Token("cred", 0, st[i])]
    \o <<Token("close", 0, NoCredential)>>

\* CredentialTypeSchema and CredentialSchema: the six fields, the type one of the
\* enumeration.
CredentialTypeSchema == {"api_key", "oauth_token", "password", "certificate"}
CredentialSchema(c) ==
    /\ {"id", "service", "type", "encryptedValue", "createdAt", "updatedAt"}
            \subseteq DOMAIN c
    /\ c.type \in CredentialTypeSchema

\* JSON.parse followed by VaultStoreSchema.parse: the credentials of a complete
\* document of version 1 whose records pass CredentialSchema; anything else does
\* not parse.
ParsesAnyVersion(content) ==
    /\ Len(content) >= 2
    /\ content[1].tok = "open"
    /\ content[Len(content)].tok = "close"
    /\ \A i \in 2..(Len(content) - 1) :
        content[i].tok = "cred" /\ CredentialSchema(content[i].cred)
Parses(content) ==
    /\ Len(content) >= 2
    /\ content[1].tok = "open" /\ content[1].version = 1
    /\ content[Len(content)].tok = "close"
    /\ \A i \in 2..(Len(content) - 1) :
        content[i].tok = "cred" /\ CredentialSchema(content[i].cred)
Parsed(content) == [i \in 1..(Len(content) - 2) |-> content[i + 1].cred]

\* Vault.list: the records without their encrypted values.
Public(c) ==
    [id |-> c.id, service |-> c.service, type |-> c.type,
     createdAt |-> c.createdAt, updatedAt |-> c.updatedAt]
list(st) == [i \in 1..Len(st) |-> Public(st[i])]

\* Array.findIndex of the id: the first index holding it, 0 when none does.
findIndex(st, id) ==
    IF \E i \in 1..Len(st) : st[i].id = id
    THEN CHOOSE i \in 1..Len(st) :
            st[i].id = id /\ \A j \in 1..(i - 1) : st[j].id # id
    ELSE 0

\* Vault.get: null, or the first record with the id and its decrypted value.
NoCredentialFound == [found |-> FALSE]
get(st, id, k) ==
    IF findIndex(st, id) = 0
    THEN NoCredentialFound
    ELSE [found |-> TRUE, credential |-> st[findIndex(st, id)],
          value |-> decrypt(st[findIndex(st, id)].encryptedValue, k)]

\* Array.splice(index, 1).
SpliceLast(st, index) == SubSeq(st, 1, Len(st) - 1)
Splice(st, index) == SubSeq(st, 1, index - 1) \o SubSeq(st, index + 1, Len(st))

\* The record of the operation the vault is in: what was called, the store and
\* the file as they were when it was called, and how it ended.
Op(pc, op, id, value, result, outcome, preStore, preDisk, ops) ==
    [pc |-> pc, op |-> op, id |-> id, value |-> value, result |-> result,
     outcome |-> outcome, preStore |-> preStore, preDisk |-> preDisk, ops |-> ops]

NoId == [service |-> "", type |-> "", hash |-> 0]

VaultIdle ==
    /\ store = <<>>
    /\ disk = NoFile
    /\ vault = Op("idle", "open", NoId, 0, FALSE, "returned", <<>>, NoFile, 0)
    /\ imported = <<>>

\* new Vault(key, path) followed by load() on a path that holds no file.
VaultInit == key \in Keys /\ VaultIdle

\* Vault.import up to the first suspension of save(): the id is allocated, the
\* value encrypted, the record pushed; save() waits for mkdir.
ImportBegin ==
    /\ vault.pc = "idle" /\ vault.ops < MaxOps
    /\ \E service \in Services, type \in CredentialTypes, value \in Plaintexts,
          hash \in Hashes, iv \in IVs :
        LET id == generateCredentialId(service, type, hash)
            credential == [id |-> id, service |-> service, type |-> type,
                           encryptedValue |-> encrypt(value, key, iv),
                           createdAt |-> now, updatedAt |-> now]
        IN  /\ store' = Append(store, credential)
            /\ vault' = Op("mkdir", "import", id, value, FALSE, "running",
                           store, disk, vault.ops + 1)
    /\ UNCHANGED <<now, launcherVars, proxyVars, sessionVars, textVars, key, disk, imported>>

\* Vault.delete of an id no record has: returns false.
DeleteMiss ==
    /\ vault.pc = "idle" /\ vault.ops < MaxOps
    /\ \E id \in CredentialIds :
        /\ findIndex(store, id) = 0
        /\ vault' = Op("idle", "delete", id, 0, FALSE, "returned",
                       store, disk, vault.ops + 1)
    /\ UNCHANGED <<now, launcherVars, proxyVars, sessionVars, textVars, key, store, disk, imported>>

\* Vault.delete of an id some record has, up to the first suspension of save():
\* the record is spliced out; save() waits for mkdir.
DeleteBegin ==
    /\ vault.pc = "idle" /\ vault.ops < MaxOps
    /\ \E id \in CredentialIds :
        /\ findIndex(store, id) # 0
        /\ store' = Splice(store, findIndex(store, id))
        /\ vault' = Op("mkdir", "delete", id, 0, TRUE, "running",
                       store, disk, vault.ops + 1)
        /\ imported' = SelectSeq(imported, LAMBDA r : r[1] # id)
    /\ UNCHANGED <<now, launcherVars, proxyVars, sessionVars, textVars, key, disk>>

\* save(): mkdir resolves; the store is serialised and writeFile opens the vault
\* path for writing, which creates or truncates the file.
SaveOpen ==
    /\ vault.pc = "mkdir"
    /\ disk' = File(<<>>)
    /\ vault' = [vault EXCEPT !.pc = "write"]
    /\ UNCHANGED <<now, launcherVars, proxyVars, sessionVars, textVars, key, store, imported>>

\* save(): writeFile writes the next part of the serialised store.
SaveWrite ==
    /\ vault.pc = "write"
    /\ Len(disk.content) < Len(Serialize(store))
    /\ \E n \in (Len(disk.content) + 1)..Len(Serialize(store)) :
        disk' = File(SubSeq(Serialize(store), 1, n))
    /\ UNCHANGED <<now, launcherVars, proxyVars, sessionVars, textVars, key, store, vault, imported>>

\* save(): writeFile resolves; import returns the credential, delete returns true.
SaveDone ==
    /\ vault.pc = "write"
    /\ Len(disk.content) = Len(Serialize(store))
    /\ vault' = [vault EXCEPT !.pc = "idle", !.outcome = "returned"]
    /\ imported' = IF vault.op = "import"
                   THEN Append(imported, <<vault.id, vault.value>>)
                   ELSE imported
    /\ UNCHANGED <<now, launcherVars, proxyVars, sessionVars, textVars, key, store, disk>>

\* save(): mkdir or writeFile rejects (permission denied, disk full); the error
\* is surfaced to the caller of import or delete.
SaveFail ==
    /\ vault.pc \in {"mkdir", "write"}
    /\ vault' = [vault EXCEPT !.pc = "idle", !.outcome = "threw"]
    /\ UNCHANGED <<now, launcherVars, proxyVars, sessionVars, textVars, key, store, disk, imported>>

\* The process dies while save() is running.
Crash ==
    /\ vault.pc \in {"mkdir", "write"}
    /\ vault' = [vault EXCEPT !.pc = "crashed", !.outcome = "crashed"]
    /\ UNCHANGED <<now, launcherVars, proxyVars, sessionVars, textVars, key, store, disk, imported>>

\* Vault.load: the store a vault opened on the file gets; a file that does not
\* parse makes load throw.
Loads(file) == ~file.exists \/ Parses(file.content)
load(file) == IF ~file.exists THEN <<>> ELSE Parsed(file.content)

\* createVault with the same key on the same path, by a new process.
Reopen ==
    /\ vault.pc \in {"idle", "crashed"}
    /\ vault.op # "open"
    /\ IF Loads(disk)
       THEN /\ store' = load(disk)
            /\ vault' = Op("idle", "open", NoId, 0, FALSE, "returned",
                           load(disk), disk, vault.ops)
       ELSE /\ store' = <<>>
            /\ vault' = Op("unusable", "open", NoId, 0, FALSE, "threw",
                           <<>>, disk, vault.ops)
    /\ imported' = <<>>
    /\ UNCHANGED <<now, launcherVars, proxyVars, sessionVars, textVars, key, disk>>


(***************************************************************************)
(* Part III.  The secure session store (tarball at rest).                  *)
(***************************************************************************)
\* Bytes of names, of data and of packed buffers. A length field of the packed
\* format (writeUInt32BE) takes LengthCells cells of a buffer.
NUL == 0
Letter == 1
Dot == 2
Slash == 3
Bytes == {NUL, Letter, Dot, Slash}
LengthCells == 1

\* A directory: the set of its files, each a name and its data, no two of one
\* name. The names and data the session library and the import source use, and
\* the order readdirSync lists them in.
EmptyDir == {}
DirEntry(name, data) == [name |-> name, data |-> data]
namesOf(dir) == {e.name : e \in dir}
readFileSync(dir, name) == (CHOOSE e \in dir : e.name = name).data
writeFileSync(dir, name, data) == {e \in dir : e.name # name} \cup {DirEntry(name, data)}
unlink(dir, name) == {e \in dir : e.name # name}
FileNames == {<<Letter>>, <<Letter, Letter>>, <<Dot, Letter>>}
FileData == {<<Letter>>, <<Dot>>}
DirectoryOrder == <<<<Letter>>, <<Letter, Letter>>, <<Dot, Letter>>>>
readdirSync(dir) == SelectSeq(DirectoryOrder, LAMBDA n : n \in namesOf(dir))
Directories ==
    UNION {{{DirEntry(n, f[n]) : n \in S} : f \in [S -> FileData]} : S \in SUBSET FileNames}

\* packDirectory: [name length][name][data length][data] for every file.
RECURSIVE packFiles(_, _)
packFiles(dir, files) ==
    IF files = <<>>
    THEN <<>>
    ELSE LET file == Head(files)
             data == readFileSync(dir, file)
         IN  <<Len(file)>> \o file \o <<Len(data)>> \o data
                \o packFiles(dir, Tail(files))
packDirectory(dir) == packFiles(dir, readdirSync(dir))

\* path.basename (POSIX): trailing separators are dropped, then everything up to
\* the last separator.
RECURSIVE stripTrailingSeparators(_)
stripTrailingSeparators(name) ==
    IF name # <<>> /\ name[Len(name)] = Slash
    THEN stripTrailingSeparators(SubSeq(name, 1, Len(name) - 1))
    ELSE name
basename(name) ==
    LET path == stripTrailingSeparators(name)
        seps == {i \in 1..Len(path) : path[i] = Slash}
        start == IF seps = {} THEN 1
                 ELSE (CHOOSE i \in seps : \A j \in seps : j <= i) + 1
    IN  SubSeq(path, start, Len(path))

\* unpackToDirectory, line 89: the names that are skipped.
Suspicious(name) ==
    LET safeName == basename(name)
    IN  safeName # name \/ (safeName # <<>> /\ safeName[1] = Dot)

\* fs.writeFileSync(path.join(dirPath, safeName), data) throws when the path is the
\* directory itself (empty name) or holds a null byte.
WriteThrows(safeName) == safeName = <<>> \/ \E i \in 1..Len(safeName) : safeName[i] = NUL

\* unpackToDirectory from an offset on: the directory written, and whether a
\* write threw (which ends the loop with the entries before it written).
RECURSIVE unpackFrom(_, _, _)
unpackFrom(packed, offset, dir) ==
    IF ~(offset < Len(packed)) \/ offset + LengthCells > Len(packed)
    THEN [threw |-> FALSE, files |-> dir]
    ELSE LET nameLen == packed[offset + 1]
             nameAt == offset + LengthCells
         IN  IF nameAt + nameLen > Len(packed) \/ nameAt + nameLen + LengthCells > Len(packed)
             THEN [threw |-> FALSE, files |-> dir]
             ELSE LET name == SubSeq(packed, nameAt + 1, nameAt + nameLen)
                      dataLen == packed[nameAt + nameLen + 1]
                      dataAt == nameAt + nameLen + LengthCells
                  IN  IF dataAt + dataLen > Len(packed)
                      THEN [threw |-> FALSE, files |-> dir]
                      ELSE LET data == SubSeq(packed, dataAt + 1, dataAt + dataLen)
                           IN  IF Suspicious(name)
                               THEN unpackFrom(packed, dataAt + dataLen, dir)
                               ELSE IF WriteThrows(name)
                               THEN [threw |-> TRUE, files |-> dir]
                               ELSE unpackFrom(packed, dataAt + dataLen,
                                        writeFileSync(dir, name, data))
unpackToDirectory(packed) == unpackFrom(packed, 0, EmptyDir)

\* gzip and gunzip, and the EncryptedBlob of encrypt with the iv drawn by
\* randomBytes; decrypt throws when the tag does not verify under the key.
SessionIVs == {0}
gzip(data) == [gz |-> data]
gunzip(compressed) == compressed.gz
sessionEncrypt(plaintext, masterKey, iv) ==
    [version |-> 1, iv |-> iv, tag |-> <<masterKey, iv>>, ciphertext |-> plaintext]
sessionDecrypt(blob, masterKey) ==
    [ok |-> blob.tag = <<masterKey, blob.iv>>, plaintext |-> blob.ciphertext]

\* A file of the vault directory: absent, or holding a blob.
NoBlob == sessionEncrypt(gzip(<<>>), 0, 0)
Absent == [exists |-> FALSE, blob |-> NoBlob]
Holding(blob) == [exists |-> TRUE, blob |-> blob]

\* The store object after construction, by the flush interval it was given, and
\* the history kept of it.
NewSession(flushIntervalMs) ==
    [ramDir |-> 0, flushTimer |-> FALSE, isOpen |-> FALSE,
     flushIntervalMs |-> flushIntervalMs, masterKey |-> 1]
NoScratch == [exists |-> FALSE, files |-> EmptyDir]
NotClosing == [pc |-> "idle", todo |-> <<>>, pass |-> "none", atClose |-> EmptyDir]
NoTrace ==
    [ops |-> 0, mkdtemps |-> 0, ticks |-> 0, last |-> "new", opened |-> 0,
     openThrew |-> FALSE, source |-> EmptyDir, closed |-> FALSE, atClose |-> EmptyDir,
     wipedUnflushed |-> FALSE]

SessionIdle ==
    /\ session = NewSession(0)
    /\ scratch = NoScratch
    /\ vaultFile = Absent
    /\ tmpFile = Absent
    /\ timers = 0
    /\ flushes = <<>>
    /\ closing = NotClosing
    /\ trace = NoTrace

\* The flush intervals a store is made with: none, and a positive one.
FlushIntervals == {0, 1}

\* new SecureSessionStore(opts) on a vault directory that holds no vault file.
SessionInit ==
    /\ session \in {NewSession(ms) : ms \in FlushIntervals}
    /\ scratch = NoScratch
    /\ vaultFile = Absent
    /\ tmpFile = Absent
    /\ timers = 0
    /\ flushes = <<>>
    /\ closing = NotClosing
    /\ trace = NoTrace

\* importFromPlaintext(sourceDir): throws on a directory without files; otherwise
\* packs, compresses, encrypts and writes the vault file.
ImportFromPlaintext ==
    /\ trace.ops < MaxSessionOps
    /\ ~session.isOpen
    /\ \E sourceDir \in Directories, iv \in SessionIVs :
        IF readdirSync(sourceDir) = <<>>
        THEN /\ trace' = [trace EXCEPT !.ops = @ + 1, !.last = "import threw"]
             /\ UNCHANGED vaultFile
        ELSE /\ vaultFile' = Holding(sessionEncrypt(gzip(packDirectory(sourceDir)),
                                                    session.masterKey, iv))
             /\ trace' = [trace EXCEPT !.ops = @ + 1, !.last = "import",
                                       !.source = sourceDir]
    /\ UNCHANGED <<now, launcherVars, proxyVars, vaultVars, textVars, session, scratch, tmpFile,
                   timers, flushes, closing>>

\* open(), line 202: the early return of a store that is open.
AlreadyOpenNever(s) == FALSE
AlreadyOpen(s) == s.isOpen

\* open(), line 222: whether the periodic flush is started.
StartsTimer(flushIntervalMs) == flushIntervalMs > 0

\* open(): an open store returns its scratch path; a closed one makes a scratch
\* directory, decrypts and unpacks the vault file into it when there is one,
\* starts the flush timer and becomes open. A throw of decrypt or of the unpacking
\* leaves the scratch directory behind and the store closed.
Open ==
    /\ trace.ops < MaxSessionOps
    /\ IF AlreadyOpen(session)
       THEN /\ trace' = [trace EXCEPT !.ops = @ + 1, !.last = "open",
                                      !.opened = session.ramDir]
            /\ UNCHANGED <<session, scratch, timers>>
       ELSE LET ramDir == trace.mkdtemps + 1
                plain == sessionDecrypt(vaultFile.blob, session.masterKey)
                unpacked == IF ~vaultFile.exists
                            THEN [threw |-> FALSE, files |-> EmptyDir]
                            ELSE IF ~plain.ok
                            THEN [threw |-> TRUE, files |-> EmptyDir]
                            ELSE unpackToDirectory(gunzip(plain.plaintext))
            IN  /\ scratch' = [exists |-> TRUE, files |-> unpacked.files]
                /\ IF unpacked.threw
                   THEN /\ session' = [session EXCEPT !.ramDir = ramDir]
                        /\ trace' = [trace EXCEPT !.ops = @ + 1, !.mkdtemps = ramDir,
                                        !.last = "open", !.opened = 0,
                                        !.openThrew = TRUE, !.closed = FALSE]
                        /\ UNCHANGED timers
                   ELSE /\ session' = [session EXCEPT !.ramDir = ramDir,
                                !.isOpen = TRUE,
                                !.flushTimer = StartsTimer(session.flushIntervalMs)]
                        /\ timers' = IF StartsTimer(session.flushIntervalMs)
                                     THEN timers + 1 ELSE timers
                        /\ trace' = [trace EXCEPT !.ops = @ + 1, !.mkdtemps = ramDir,
                                        !.last = "open", !.opened = ramDir,
                                        !.openThrew = FALSE, !.closed = FALSE]
    /\ UNCHANGED <<now, launcherVars, proxyVars, vaultVars, textVars, vaultFile, tmpFile, flushes,
                   closing>>

\* The session library writes a file of the scratch directory.
LibraryNames == {<<Letter>>, <<Letter, Letter>>}
LibraryWrite ==
    /\ trace.ops < MaxSessionOps
    /\ session.isOpen /\ scratch.exists
    /\ \E name \in LibraryNames, data \in FileData :
        /\ DirEntry(name, data) \notin scratch.files
        /\ scratch' = [scratch EXCEPT !.files = writeFileSync(@, name, data)]
    /\ trace' = [trace EXCEPT !.ops = @ + 1, !.last = "write"]
    /\ UNCHANGED <<now, launcherVars, proxyVars, vaultVars, textVars, session, vaultFile, tmpFile,
                   timers, flushes, closing>>

\* flush() up to its first await: nothing on a store that is not open or whose
\* scratch directory is gone; otherwise the directory is packed.
FlushTask(origin, iv) ==
    [origin |-> origin, pc |-> "packed",
     blob |-> sessionEncrypt(gzip(packDirectory(scratch.files)), session.masterKey, iv)]
flushStarted(origin) ==
    IF session.ramDir = 0 \/ ~session.isOpen \/ ~scratch.exists
    THEN {flushes}
    ELSE {Append(flushes, FlushTask(origin, iv)) : iv \in SessionIVs}

\* An explicit flush() call (the adapter's creds.update handler).
Flush ==
    /\ trace.ops < MaxSessionOps
    /\ flushes' \in flushStarted("call")
    /\ trace' = [trace EXCEPT !.ops = @ + 1, !.last = "flush"]
    /\ UNCHANGED <<now, launcherVars, proxyVars, vaultVars, textVars, session, scratch, vaultFile,
                   tmpFile, timers, closing>>

\* The interval timer fires: its callback calls flush().
TimerTick ==
    /\ trace.ops < MaxSessionOps
    /\ timers > 0
    /\ flushes' \in flushStarted("timer")
    /\ trace' = [trace EXCEPT !.ops = @ + 1, !.last = "tick", !.ticks = @ + 1]
    /\ UNCHANGED <<now, launcherVars, proxyVars, vaultVars, textVars, session, scratch, vaultFile,
                   tmpFile, timers, closing>>

\* flush(): gzip and mkdir have resolved; writeFile writes the blob to the .tmp path.
FlushWrite(i) ==
    /\ flushes[i].pc = "packed"
    /\ tmpFile' = Holding(flushes[i].blob)
    /\ flushes' = [flushes EXCEPT ![i].pc = "written"]
    /\ UNCHANGED <<now, launcherVars, proxyVars, vaultVars, textVars, session, scratch, vaultFile,
                   timers, closing, trace>>

\* close() after its flush: straight to the wipe of the scratch directory
\* (secureWipeDir lists the directory first).
WipeOf(dir) == [pc |-> "wipe", todo |-> readdirSync(dir), pass |-> "overwrite",
                atClose |-> closing.atClose]

\* flush(): rename of the .tmp path onto the vault file; ENOENT when another
\* flush has renamed it away. The flush of close() is followed by the wipe, or
\* makes close() throw.
Remove(seq, i) == SubSeq(seq, 1, i - 1) \o SubSeq(seq, i + 1, Len(seq))
FlushRename(i) ==
    /\ flushes[i].pc = "written"
    /\ flushes' = Remove(flushes, i)
    /\ IF tmpFile.exists
       THEN /\ vaultFile' = tmpFile
            /\ tmpFile' = Absent
       ELSE UNCHANGED <<vaultFile, tmpFile>>
    /\ IF flushes[i].origin # "close"
       THEN UNCHANGED <<closing, trace>>
       ELSE IF tmpFile.exists
       THEN /\ closing' = WipeOf(scratch.files)
            /\ UNCHANGED trace
       ELSE /\ closing' = NotClosing
            /\ trace' = [trace EXCEPT !.last = "close threw"]
    /\ UNCHANGED <<now, launcherVars, proxyVars, vaultVars, textVars, session, scratch, timers>>

\* close(), line 279: the final flush is awaited before the wipe.
AwaitFlushNot(dir) ==
    [pc |-> "wipe", todo |-> readdirSync(dir), pass |-> "overwrite", atClose |-> dir]
AwaitFlush(dir) == [pc |-> "flush", todo |-> <<>>, pass |-> "none", atClose |-> dir]

\* close(), lines 270-279: nothing on a closed store; otherwise the timer is
\* cleared and the final flush started.
Close ==
    /\ trace.ops < MaxSessionOps
    /\ closing.pc = "idle"
    /\ IF ~session.isOpen
       THEN /\ trace' = [trace EXCEPT !.ops = @ + 1, !.last = "close again"]
            /\ UNCHANGED <<session, timers, flushes, closing>>
       ELSE /\ session' = [session EXCEPT !.flushTimer = FALSE]
            /\ timers' = IF session.flushTimer THEN timers - 1 ELSE timers
            /\ flushes' \in flushStarted("close")
            /\ closing' = AwaitFlush(scratch.files)
            /\ trace' = [trace EXCEPT !.ops = @ + 1, !.last = "close"]
    /\ UNCHANGED <<now, launcherVars, proxyVars, vaultVars, textVars, scratch, vaultFile, tmpFile>>

\* secureWipeDir: the next listed file is overwritten with random bytes.
Garbage == <<NUL>>
WipeOverwrite ==
    /\ closing.pc = "wipe" /\ closing.todo # <<>> /\ closing.pass = "overwrite"
    /\ scratch' = [scratch EXCEPT !.files = writeFileSync(@, Head(closing.todo), Garbage)]
    /\ closing' = [closing EXCEPT !.pass = "unlink"]
    /\ trace' = [trace EXCEPT !.wipedUnflushed =
                    @ \/ \E i \in 1..Len(flushes) : flushes[i].origin = "close"]
    /\ UNCHANGED <<now, launcherVars, proxyVars, vaultVars, textVars, session, vaultFile, tmpFile,
                   timers, flushes>>

\* secureWipeDir: the overwritten file is unlinked.
WipeUnlink ==
    /\ closing.pc = "wipe" /\ closing.todo # <<>> /\ closing.pass = "unlink"
    /\ scratch' = [scratch EXCEPT !.files = unlink(@, Head(closing.todo))]
    /\ closing' = [closing EXCEPT !.todo = Tail(@), !.pass = "overwrite"]
    /\ UNCHANGED <<now, launcherVars, proxyVars, vaultVars, textVars, session, vaultFile, tmpFile,
                   timers, flushes, trace>>

\* secureWipeDir: rmdir of the scratch directory, which throws when a file was
\* written since the listing; then close() clears ramDir and _isOpen and returns.
CloseDone ==
    /\ closing.pc = "wipe" /\ closing.todo = <<>>
    /\ closing' = NotClosing
    /\ IF scratch.files = EmptyDir
       THEN /\ scratch' = NoScratch
            /\ session' = [session EXCEPT !.ramDir = 0, !.isOpen = FALSE]
            /\ trace' = [trace EXCEPT !.last = "close returned", !.closed = TRUE,
                                      !.atClose = closing.atClose]
       ELSE /\ trace' = [trace EXCEPT !.last = "close threw"]
            /\ UNCHANGED <<session, scratch>>
    /\ UNCHANGED <<now, launcherVars, proxyVars, vaultVars, textVars, vaultFile, tmpFile, timers,
                   flushes>>

(***************************************************************************)
(* Part IV.  Reference resolution and redaction.                           *)
(***************************************************************************)
TextIdle ==
    /\ credentialStore = <<>>
    /\ exchange = <<>>

\* Texts are sequences of characters. The characters of the model's texts that
\* are letters or digits, and the white space.
Letters ==
    {"a", "b", "c", "d", "e", "f", "g", "h", "i", "k", "o", "p", "r", "s", "x",
     "j", "l", "m", "n", "t", "u", "0", "1", "2",
     "A", "B", "C", "D", "E", "I", "P", "R", "T"}
Whitespace == {" "}
toLowerCase(c) ==
    CASE c = "A" -> "a" [] c = "P" -> "p" [] c = "I" -> "i" [] OTHER -> c

\* TOKEN_PATTERNS, each as: a literal, then (xox) one character of a set and a
\* further literal, then (Bearer) white space, then at least min characters of a
\* class; the i flag of the api_ pattern.
MinSk == 20
MinGhp == 35
MinApi == 20
TokenPattern(literal, oneOf, then, space, class, min, ignoreCase) ==
    [literal |-> literal, oneOf |-> oneOf, then |-> then, space |-> space,
     class |-> class, min |-> min, ignoreCase |-> ignoreCase]
TOKEN_PATTERNS ==
    <<TokenPattern(<<"s", "k", "-">>, {}, <<>>, FALSE, Letters, MinSk, FALSE),
      TokenPattern(<<"g", "h", "p", "_">>, {}, <<>>, FALSE, Letters, MinGhp, FALSE),
      TokenPattern(<<"x", "o", "x">>, {"b", "a", "p", "r", "s"}, <<"-">>, FALSE,
                   Letters \cup {"-"}, 1, FALSE),
      TokenPattern(<<"a", "p", "i", "_">>, {}, <<>>, FALSE,
                   Letters \cup {"_", "-"}, MinApi, TRUE),
      TokenPattern(<<"B", "e", "a", "r", "e", "r">>, {}, <<>>, TRUE,
                   Letters \cup {".", "_", "-"}, 1, FALSE)>>

\* The replacement text of redactTokens.
RedactedBare == <<"R", "E", "D", "A", "C", "T", "E", "D">>
Redacted == <<"[", "R", "E", "D", "A", "C", "T", "E", "D", "]">>

\* Whether the literal stands in the text at position p.
literalAt(text, p, literal, ignoreCase) ==
    /\ p + Len(literal) - 1 <= Len(text)
    /\ IF ignoreCase
       THEN \A i \in 1..Len(literal) :
                toLowerCase(text[p + i - 1]) = toLowerCase(literal[i])
       ELSE SubSeq(text, p, p + Len(literal) - 1) = literal

\* The length of the longest run of characters of the class from position p on.
runAt(text, p, class) ==
    LET stops == {q \in p..Len(text) : text[q] \notin class}
    IN  IF stops = {} THEN Len(text) - p + 1
        ELSE (CHOOSE q \in stops : \A r \in stops : q <= r) - p

\* The length of the (greedy) match of a pattern at position p, 0 when there is
\* none.
matchAt(text, p, pattern) ==
    IF ~literalAt(text, p, pattern.literal, pattern.ignoreCase)
    THEN 0
    ELSE LET afterLiteral == p + Len(pattern.literal)
             afterOneOf == IF pattern.oneOf = {} THEN afterLiteral ELSE afterLiteral + 1
             oneOfOk == \/ pattern.oneOf = {}
                        \/ /\ afterLiteral <= Len(text)
                           /\ text[afterLiteral] \in pattern.oneOf
             afterThen == afterOneOf + Len(pattern.then)
             spaces == IF pattern.space THEN runAt(text, afterThen, Whitespace) ELSE 0
             run == runAt(text, afterThen + spaces, pattern.class)
         IN  IF /\ oneOfOk
                /\ literalAt(text, afterOneOf, pattern.then, FALSE)
                /\ (pattern.space => spaces >= 1)
                /\ run >= pattern.min
             THEN afterThen + spaces + run - p
             ELSE 0

\* String.replace with a global pattern: every match, left to right, gives way
\* to the replacement (the scan moves from one stand of the literal to the next).
RECURSIVE replaceFrom(_, _, _)
replaceFrom(text, p, pattern) ==
    LET stands == {q \in p..Len(text) :
                    literalAt(text, q, pattern.literal, pattern.ignoreCase)}
    IN  IF stands = {}
        THEN SubSeq(text, p, Len(text))
        ELSE LET q == CHOOSE r \in stands : \A t \in stands : r <= t
                 matched == matchAt(text, q, pattern)
             IN  IF matched > 0
                 THEN SubSeq(text, p, q - 1) \o Redacted
                        \o replaceFrom(text, q + matched, pattern)
                 ELSE SubSeq(text, p, q) \o replaceFrom(text, q + 1, pattern)

\* redactTokens: the patterns are applied one after the other.
RECURSIVE redactWith(_, _)
redactWith(text, patterns) ==
    IF patterns = <<>>
    THEN text
    ELSE redactWith(replaceFrom(text, 1, Head(patterns)), Tail(patterns))
redactTokens(text) == redactWith(text, TOKEN_PATTERNS)

\* The pieces the texts to redact are put together from, and the texts.
Run(n) == [i \in 1..n |-> "a"]
RedactPieces ==
    {<<"s", "k", "-">>, <<"g", "h", "p", "_">>, <<"x", "o", "x", "b", "-">>,
     <<"A", "P", "I", "_">>, <<"B", "e", "a", "r", "e", "r">>, <<" ">>,
     <<"a">>, Run(15), Run(20)}
RECURSIVE concat(_)
concat(pieces) == IF pieces = <<>> THEN <<>> ELSE Head(pieces) \o concat(Tail(pieces))
TextsOf(pieces, n) == {concat(ps) : ps \in UNION {[1..m -> pieces] : m \in 0..n}}

\* A text is redacted, and the result is redacted again.
RedactInit ==
    exchange \in {[stage |-> "text", text |-> t, once |-> <<>>, twice |-> <<>>] :
                    t \in TextsOf(RedactPieces, MaxPieces)}
Redact ==
    /\ exchange.stage = "text"
    /\ exchange' = [exchange EXCEPT !.stage = "once", !.once = redactTokens(exchange.text)]
    /\ UNCHANGED <<now, launcherVars, proxyVars, vaultVars, sessionVars, credentialStore>>
RedactAgain ==
    /\ exchange.stage = "once"
    /\ exchange' = [exchange EXCEPT !.stage = "twice", !.twice = redactTokens(exchange.once)]
    /\ UNCHANGED <<now, launcherVars, proxyVars, vaultVars, sessionVars, credentialStore>>

\* refPattern of injectCredentials, /\{ref:(cred_[a-zA-Z0-9_]+)\}/g: the length of
\* its match at position p (0 when none) and the reference id of the match.
RefOpen == <<"{", "r", "e", "f", ":">>
RefIdOpen == <<"c", "r", "e", "d", "_">>
refAt(text, p) ==
    IF ~literalAt(text, p, RefOpen \o RefIdOpen, FALSE)
    THEN 0
    ELSE LET idAt == p + Len(RefOpen) + Len(RefIdOpen)
             run == runAt(text, idAt, Letters \cup {"_"})
         IN  IF run >= 1 /\ idAt + run <= Len(text) /\ text[idAt + run] = "}"
             THEN Len(RefOpen) + Len(RefIdOpen) + run + 1
             ELSE 0
refIdAt(text, p) == SubSeq(text, p + Len(RefOpen), p + refAt(text, p) - 2)

\* value.matchAll(refPattern): the matches from position p on, each with the text
\* matched (match[0]) and the id (match[1]).
RECURSIVE matchAllFrom(_, _)
matchAllFrom(text, p) ==
    LET found == {q \in p..Len(text) : refAt(text, q) > 0}
    IN  IF found = {}
        THEN <<>>
        ELSE LET q == CHOOSE r \in found : \A t \in found : r <= t
             IN  <<[text |-> SubSeq(text, q, q + refAt(text, q) - 1),
                    id |-> refIdAt(text, q)]>>
                    \o matchAllFrom(text, q + refAt(text, q))

\* GetSubstitution of String.prototype.replace with a string pattern: in the
\* replacement $$ stands for $, $& for the text matched, $ with a backtick for
\* the text before it and $ with an apostrophe for the text after it.
Backtick == "backtick"
Apostrophe == "apostrophe"
RECURSIVE getSubstitution(_, _, _, _)
getSubstitution(replacement, matched, before, after) ==
    LET dollars == {q \in 1..(Len(replacement) - 1) :
                        /\ replacement[q] = "$"
                        /\ replacement[q + 1] \in {"$", "&", Backtick, Apostrophe}}
    IN  IF dollars = {}
        THEN replacement
        ELSE LET q == CHOOSE r \in dollars : \A t \in dollars : r <= t
             IN  SubSeq(replacement, 1, q - 1)
                    \o (CASE replacement[q + 1] = "$" -> <<"$">>
                           [] replacement[q + 1] = "&" -> matched
                           [] replacement[q + 1] = Backtick -> before
                           [] OTHER -> after)
                    \o getSubstitution(SubSeq(replacement, q + 2, Len(replacement)),
                                       matched, before, after)

\* result.replace(match[0], credential): the first occurrence of the string
\* match[0] gives way to the substitution of credential.
indexOf(text, searched) ==
    LET found == {p \in 1..(Len(text) - Len(searched) + 1) :
                    SubSeq(text, p, p + Len(searched) - 1) = searched}
    IN  IF found = {} THEN 0 ELSE CHOOSE p \in found : \A q \in found : p <= q
replace(text, searched, replacement) ==
    LET p == indexOf(text, searched)
        before == SubSeq(text, 1, p - 1)
        after == SubSeq(text, p + Len(searched), Len(text))
    IN  IF p = 0 THEN text
        ELSE before \o getSubstitution(replacement, searched, before, after) \o after

\* CredentialStore.get: the plaintext of a reference id, or undefined.
Undefined == [defined |-> FALSE, value |-> <<>>]
Plaintext(value) == [defined |-> TRUE, value |-> value]
credentialStoreGet(credentials, refId) ==
    IF refId \in DOMAIN credentials THEN credentials[refId] ELSE Undefined

\* injectCredentials on a string, lines 82-95: for each match in turn, a
\* credential that is found (and is not the empty string) replaces match[0].
RECURSIVE injectMatches(_, _, _)
injectMatches(result, matches, credentials) ==
    IF matches = <<>>
    THEN result
    ELSE LET credential == credentialStoreGet(credentials, Head(matches).id)
         IN  injectMatches(
                IF credential.defined /\ credential.value # <<>>
                THEN replace(result, Head(matches).text, credential.value)
                ELSE result,
                Tail(matches), credentials)
injectString(text, credentials) == injectMatches(text, matchAllFrom(text, 1), credentials)

\* The values of the walk: a string, an array or an object of strings, or a
\* value of another type.
StringValue(text) == [kind |-> "string", text |-> text, items |-> <<>>]
ArrayValue(items) == [kind |-> "array", text |-> <<>>, items |-> items]
ObjectValue(items) == [kind |-> "object", text |-> <<>>, items |-> items]
OtherValue == [kind |-> "number", text |-> <<>>, items |-> <<>>]

\* injectCredentials: strings are resolved, arrays and objects walked, anything
\* else returned as it is.
injectCredentials(value, credentials) ==
    CASE value.kind = "string" -> StringValue(injectString(value.text, credentials))
      [] value.kind \in {"array", "object"} ->
            [value EXCEPT !.items =
                [i \in 1..Len(value.items) |-> injectString(value.items[i], credentials)]]
      [] OTHER -> value

\* The references of the texts, the pieces the texts and the plaintexts
\* are put together from, and the credential stores.
RefA == RefOpen \o RefIdOpen \o <<"a", "}">>
RefB == RefOpen \o RefIdOpen \o <<"b", "}">>
CredA == RefIdOpen \o <<"a">>
CredB == RefIdOpen \o <<"b">>
InjectPieces == {<<"x">>, RefA, RefB}
PlaintextPieces == {<<"x">>, <<"$">>, <<"&">>}
CredentialStores ==
    {(CredA :> a) @@ (CredB :> b) :
        a \in {Undefined} \cup {Plaintext(v) : v \in TextsOf(PlaintextPieces, MaxValue)},
        b \in {Undefined, Plaintext(<<"x">>)}}
WalkValues ==
    {OtherValue}
    \cup {StringValue(t) : t \in TextsOf(InjectPieces, MaxText)}
    \cup {ArrayValue(<<t>>) : t \in TextsOf(InjectPieces, MaxText)}
    \cup {ObjectValue(<<t>>) : t \in TextsOf(InjectPieces, MaxText)}

\* injectCredentials on one value, every credentialStore.get resolving.
InjectInit ==
    /\ credentialStore \in CredentialStores
    /\ exchange \in {[stage |-> "params", params |-> v, injected |-> OtherValue] :
                        v \in WalkValues}
Inject ==
    /\ exchange.stage = "params"
    /\ exchange' = [exchange EXCEPT !.stage = "injected",
                        !.injected = injectCredentials(exchange.params, credentialStore)]
    /\ UNCHANGED <<now, launcherVars, proxyVars, vaultVars, sessionVars, credentialStore>>

\* JSON.stringify of a string: the text between quotes, quote and backslash
\* escaped.
Quote == "\""
Backslash == "\\"
RECURSIVE jsonEscape(_)
jsonEscape(text) ==
    LET special == {q \in 1..Len(text) : text[q] \in {Quote, Backslash}}
    IN  IF special = {}
        THEN text
        ELSE LET q == CHOOSE r \in special : \A t \in special : r <= t
             IN  SubSeq(text, 1, q - 1) \o <<Backslash, text[q]>>
                    \o jsonEscape(SubSeq(text, q + 1, Len(text)))
jsonString(text) == <<Quote>> \o jsonEscape(text) \o <<Quote>>

\* JSON.stringify(mockResult), lines 196-202: the object with success, tool and
\* params, params being the request's params object (name and one argument k).
ResultOpen ==
    <<"{", "\"", "s", "u", "c", "c", "e", "s", "s", "\"", ":", "t", "r", "u", "e", ",",
      "\"", "t", "o", "o", "l", "\"", ":">>
ResultParams ==
    <<",", "\"", "p", "a", "r", "a", "m", "s", "\"", ":", "{", "\"", "n", "a", "m",
      "e", "\"", ":">>
ResultArgument ==
    <<",", "\"", "k", "\"", ":">>
ResultClose == <<"}", "}">>
stringifyResult(tool, params) ==
    ResultOpen \o jsonString(tool) \o ResultParams \o jsonString(params.items[1])
        \o ResultArgument \o jsonString(params.items[2]) \o ResultClose

\* JSON.parse of a string literal at position p: whether there is one, its text,
\* and the position after it.
RECURSIVE parseChars(_, _)
parseChars(text, p) ==
    LET special == {q \in p..Len(text) : text[q] \in {Quote, Backslash}}
    IN  IF special = {}
        THEN [ok |-> FALSE, text |-> <<>>, next |-> p]
        ELSE LET q == CHOOSE r \in special : \A t \in special : r <= t
             IN  IF text[q] = Quote
                 THEN [ok |-> TRUE, text |-> SubSeq(text, p, q - 1), next |-> q + 1]
                 ELSE IF q + 1 <= Len(text) /\ text[q + 1] \in {Quote, Backslash}
                 THEN LET rest == parseChars(text, q + 2)
                      IN  [rest EXCEPT
                            !.text = SubSeq(text, p, q - 1) \o <<text[q + 1]>> \o rest.text]
                 ELSE [ok |-> FALSE, text |-> <<>>, next |-> q]
parseString(text, p) ==
    IF p <= Len(text) /\ text[p] = Quote
    THEN parseChars(text, p + 1)
    ELSE [ok |-> FALSE, text |-> <<>>, next |-> p]

\* JSON.parse(redactedResult), line 214: the object read back, or a SyntaxError.
parseResult(text) ==
    LET tool == parseString(text, Len(ResultOpen) + 1)
        name == parseString(text, tool.next + Len(ResultParams))
        k == parseString(text, name.next + Len(ResultArgument))
    IN  IF /\ literalAt(text, 1, ResultOpen, FALSE)
           /\ tool.ok /\ literalAt(text, tool.next, ResultParams, FALSE)
           /\ name.ok /\ literalAt(text, name.next, ResultArgument, FALSE)
           /\ k.ok /\ SubSeq(text, k.next, Len(text)) = ResultClose
        THEN [kind |-> "result", tool |-> tool.text,
              params |-> ObjectValue(<<name.text, k.text>>)]
        ELSE [kind |-> "error", tool |-> <<>>, params |-> ObjectValue(<<>>)]

\* The response as written to the output, JSON.stringify(response).
ResponseOpen ==
    <<"{", "\"", "j", "s", "o", "n", "r", "p", "c", "\"", ":", "\"", "2", ".", "0",
      "\"", ",", "\"", "i", "d", "\"", ":", "1", ",", "\"", "r", "e", "s", "u", "l",
      "t", "\"", ":">>
ErrorBody ==
    <<"{", "\"", "j", "s", "o", "n", "r", "p", "c", "\"", ":", "\"", "2", ".", "0",
      "\"", ",", "\"", "i", "d", "\"", ":", "1", ",", "\"", "e", "r", "r", "o", "r",
      "\"", ":", "{", "\"", "c", "o", "d", "e", "\"", ":", "-", "3", "2", "6", "0",
      "3", ",", "\"", "m", "e", "s", "s", "a", "g", "e", "\"", ":", "\"", "I", "n",
      "t", "e", "r", "n", "a", "l", " ", "e", "r", "r", "o", "r", "\"", "}", "}">>
stringifyResponse(response) ==
    IF response.kind = "result"
    THEN ResponseOpen \o stringifyResult(response.tool, response.params) \o <<"}">>
    ELSE ErrorBody

\* A tools/call that passes the policy, its argument k a text with references.
ToolText == <<"t", "o", "o", "l">>
CallPieces == {<<"B", "e", "a", "r", "e", "r">>, <<" ">>, RefA}
SecretPieces == {<<"x">>, <<"$">>, <<"s", "k", "-">>, Run(MinSk), <<Quote>>}
NoResponse == [kind |-> "none", tool |-> <<>>, params |-> ObjectValue(<<>>)]
CallInit ==
    /\ credentialStore \in
        {(CredA :> a) @@ (CredB :> Undefined) :
            a \in {Undefined} \cup {Plaintext(v) : v \in TextsOf(SecretPieces, MaxValue)}}
    /\ exchange \in
        {[stage |-> "request", params |-> ObjectValue(<<ToolText, t>>),
          resultStr |-> <<>>, redactedResult |-> <<>>, response |-> NoResponse] :
            t \in TextsOf(CallPieces, MaxText)}

\* Lines 194-209: injectCredentials resolves, the result is serialized and
\* redacted, logAudit is called.
CallInject ==
    /\ exchange.stage = "request"
    /\ LET injectedParams == injectCredentials(exchange.params, credentialStore)
           resultStr == stringifyResult(exchange.params.items[1], injectedParams)
       IN  exchange' = [exchange EXCEPT !.stage = "audit",
                            !.resultStr = resultStr,
                            !.redactedResult = redactTokens(resultStr)]
    /\ UNCHANGED <<now, launcherVars, proxyVars, vaultVars, sessionVars, credentialStore>>

\* Lines 211-215 and the catch: logAudit resolves, the redacted text is parsed
\* and returned as the result (or the SyntaxError as an internal error).
CallReturn ==
    /\ exchange.stage = "audit"
    /\ exchange' = [exchange EXCEPT !.stage = "response",
                        !.response = parseResult(exchange.redactedResult)]
    /\ UNCHANGED <<now, launcherVars, proxyVars, vaultVars, sessionVars, credentialStore>>

(***************************************************************************)
(* Part V.  The credential-injection launcher (startGateway).              *)
(***************************************************************************)
LauncherIdle ==
    /\ launcher = <<>>
    /\ gateway = <<>>

\* The exit statuses of a process; NoCode is the code null of a child that was
\* ended by a signal, and of a launcher that has not exited.
NoCode == -1
ExitCodes == {0, 1}

\* The launcher after its handlers are registered (lines 492-540), waiting for
\* findOpenClawBinary. proxied tells the variant with a proxy server to close
\* (packages/gateway) from the one without (part_012).
NewLauncher(proxied) ==
    [proxied |-> proxied, phase |-> "finding", cleanedUp |-> FALSE,
     child |-> "none", childCode |-> NoCode, childEvent |-> "none", killed |-> FALSE,
     closeWait |-> [active |-> FALSE, code |-> NoCode, cause |-> "none"],
     entries |-> 0, bodies |-> 0, kills |-> 0,
     exitCode |-> NoCode, exitCause |-> "none", childAtExit |-> "none"]

\* if (cleanedUp) return, the guard of cleanup and of cleanupSync.
CleanedUpNever(l) == FALSE
CleanedUp(l) == l.cleanedUp

\* if (openclawProcess && !openclawProcess.killed) openclawProcess.kill('SIGTERM'):
\* the signal reaches a child that runs, and then killed is set.
kill(l) ==
    IF l.child # "none" /\ ~l.killed
    THEN [l EXCEPT !.kills = @ + 1, !.killed = (l.child = "running")]
    ELSE l

\* cleanupSync, the 'exit' hook.
cleanupSync(l) ==
    LET called == [l EXCEPT !.entries = @ + 1]
    IN  IF CleanedUp(called)
        THEN called
        ELSE kill([called EXCEPT !.cleanedUp = TRUE, !.bodies = @ + 1])

\* process.exit(code): the 'exit' hook runs, then the process ends.
processExit(l, code, cause) ==
    LET hooked == cleanupSync(l)
    IN  [hooked EXCEPT !.phase = "exited", !.exitCode = code, !.exitCause = cause,
                       !.childAtExit = hooked.child]

\* An asynchronous handler, await cleanup(); process.exit(code). Without a proxy
\* server cleanup has no await of its own and the handler runs to the exit in
\* one go; with one, the first cleanup is suspended in proxyServer.close.
handle(l, code, cause) ==
    LET called == [l EXCEPT !.entries = @ + 1]
    IN  IF CleanedUp(called)
        THEN processExit(called, code, cause)
        ELSE LET entered == [called EXCEPT !.cleanedUp = TRUE, !.bodies = @ + 1]
             IN  IF l.proxied
                 THEN [entered EXCEPT
                        !.closeWait = [active |-> TRUE, code |-> code, cause |-> cause]]
                 ELSE processExit(kill(entered), code, cause)

LauncherInit ==
    /\ launcher \in {NewLauncher(proxied) : proxied \in BOOLEAN}
    /\ gateway = <<>>

\* Lines 569-598: the child is spawned once the binary is looked up.
Spawn ==
    /\ launcher.phase = "finding"
    /\ launcher' = [launcher EXCEPT !.phase = "running", !.child = "running"]
    /\ UNCHANGED <<now, proxyVars, vaultVars, sessionVars, textVars, gateway>>

\* SIGINT or SIGTERM arrives, lines 523-530.
Signal ==
    /\ launcher.phase # "exited"
    /\ \E signal \in {"SIGINT", "SIGTERM"} : launcher' = handle(launcher, 0, "signal")
    /\ UNCHANGED <<now, proxyVars, vaultVars, sessionVars, textVars, gateway>>

\* An uncaught exception or an unhandled rejection, lines 531-540.
Unhandled ==
    /\ launcher.phase # "exited"
    /\ \E kind \in {"uncaughtException", "unhandledRejection"} :
        launcher' = handle(launcher, 1, kind)
    /\ UNCHANGED <<now, proxyVars, vaultVars, sessionVars, textVars, gateway>>

\* The child process ends, by itself with a status or by a signal.
ChildDies ==
    /\ launcher.phase # "exited"
    /\ launcher.child = "running"
    /\ \E code \in ExitCodes \cup {NoCode} :
        launcher' = [launcher EXCEPT !.child = "exited", !.childCode = code,
                                     !.childEvent = "pending"]
    /\ UNCHANGED <<now, proxyVars, vaultVars, sessionVars, textVars, gateway>>

\* The child's 'exit' event, lines 573-577: process.exit(code ?? 0).
ChildExit ==
    /\ launcher.phase # "exited"
    /\ launcher.childEvent = "pending"
    /\ launcher' = handle([launcher EXCEPT !.childEvent = "delivered"],
                          IF launcher.childCode = NoCode THEN 0 ELSE launcher.childCode,
                          "childExit")
    /\ UNCHANGED <<now, proxyVars, vaultVars, sessionVars, textVars, gateway>>

\* The child's 'error' event, lines 579-583: the child could not be started.
ChildError ==
    /\ launcher.phase # "exited"
    /\ launcher.child = "running" /\ ~launcher.killed
    /\ launcher' = handle([launcher EXCEPT !.child = "failed"], 1, "childError")
    /\ UNCHANGED <<now, proxyVars, vaultVars, sessionVars, textVars, gateway>>

\* proxyServer.close calls back: the suspended cleanup goes on to the kill, and
\* its handler to process.exit.
ProxyClosed ==
    /\ launcher.phase # "exited"
    /\ launcher.closeWait.active
    /\ launcher' = processExit(kill([launcher EXCEPT !.closeWait.active = FALSE]),
                               launcher.closeWait.code, launcher.closeWait.cause)
    /\ UNCHANGED <<now, proxyVars, vaultVars, sessionVars, textVars, gateway>>

\* The process exits for another reason (a process.exit of the embedding
\* program): only the 'exit' hook of line 522 runs.
ExitHook ==
    /\ launcher.phase # "exited"
    /\ \E code \in ExitCodes : launcher' = processExit(launcher, code, "exit")
    /\ UNCHANGED <<now, proxyVars, vaultVars, sessionVars, textVars, gateway>>


\* The startup pipeline of startGateway. An auth-profiles file is a list of
\* profiles in the order of Object.keys, each with a name, a type, a provider
\* (a string, or none) and a key (a text, or none), next to the other top-level
\* fields.
NoField == [present |-> FALSE, value |-> <<>>]
NoString == [present |-> FALSE, value |-> ""]
Field(value) == [present |-> TRUE, value |-> value]
Profile(name, provider, keyField) ==
    [name |-> name, type |-> "api_key", provider |-> provider, key |-> keyField]

\* profile.key.startsWith('openpaw:vault:') and the legacy form,
\* startsWith('${OPENPAW_') && endsWith('}').
VaultPrefix == <<"o", "p", "e", "n", "p", "a", "w", ":", "v", "a", "u", "l", "t", ":">>
EnvPrefix == <<"O", "P", "E", "N", "P", "A", "W", "_">>
LegacyOpen == <<"$", "{">> \o EnvPrefix
IsVaultReference(text) == literalAt(text, 1, VaultPrefix, FALSE)
IsLegacyNever(text) == FALSE
IsLegacy(text) == literalAt(text, 1, LegacyOpen, FALSE) /\ text[Len(text)] = "}"

\* credIdToEnvVar: 'OPENPAW_' + credId.toUpperCase().replace(/[^A-Z0-9]/g, '_').
toUpperCase(c) ==
    CASE c = "a" -> "A" [] c = "p" -> "P" [] c = "i" -> "I" [] OTHER -> c
UpperOrDigit == {"A", "B", "C", "D", "E", "I", "P", "R", "T", "0", "1", "2"}
credIdToEnvVar(credId) ==
    EnvPrefix \o [i \in 1..Len(credId) |->
                    IF toUpperCase(credId[i]) \in UpperOrDigit
                    THEN toUpperCase(credId[i]) ELSE "_"]

\* Map.set on envVarMap: a name that is in the map keeps its place and takes
\* the new value, a new name goes to the end.
mapSet(map, name, info) ==
    IF \E k \in 1..Len(map) : map[k].name = name
    THEN [k \in 1..Len(map) |->
            IF map[k].name = name THEN [name |-> name, info |-> info] ELSE map[k]]
    ELSE Append(map, [name |-> name, info |-> info])

\* processAuthProfiles, the loop of lines 366-391 from profile n on: the
\* profiles with their reference keys deleted, and the envVarMap.
RECURSIVE processFrom(_, _, _)
processFrom(profiles, n, envVarMap) ==
    IF n > Len(profiles)
    THEN [profiles |-> profiles, envVarMap |-> envVarMap]
    ELSE LET profile == profiles[n]
             text == profile.key.value
         IN  IF profile.key.present /\ IsVaultReference(text)
             THEN LET credId == SubSeq(text, Len(VaultPrefix) + 1, Len(text))
                  IN  processFrom([profiles EXCEPT ![n].key = NoField], n + 1,
                        mapSet(envVarMap, credIdToEnvVar(credId),
                               [credId |-> credId, provider |-> profile.provider]))
             ELSE IF profile.key.present /\ IsLegacy(text)
             THEN LET envVarName == SubSeq(text, 3, Len(text) - 1)
                      bare == SubSeq(envVarName, Len(EnvPrefix) + 1, Len(envVarName))
                      credId == [i \in 1..Len(bare) |-> toLowerCase(bare[i])]
                  IN  processFrom([profiles EXCEPT ![n].key = NoField], n + 1,
                        mapSet(envVarMap, envVarName,
                               [credId |-> credId, provider |-> profile.provider]))
             ELSE processFrom(profiles, n + 1, envVarMap)

\* PROVIDER_ENV_VARS[provider.toLowerCase()]: the names of the table, nothing
\* for a provider that is not in it, and for the name of a member every object
\* inherits a value that is no list.
providerToLowerCase(provider) == IF provider = "Google" THEN "google" ELSE provider
Inherited == {"constructor", "__proto__"}
PROVIDER_ENV_VARS(provider) ==
    CASE provider = "google" -> <<<<"GOOGLE_API_KEY">>, <<"GEMINI_API_KEY">>>>
      [] provider = "openrouter" -> <<<<"OPENROUTER_API_KEY">>>>
      [] provider = "openai" -> <<<<"OPENAI_API_KEY">>>>
      [] provider = "anthropic" -> <<<<"ANTHROPIC_API_KEY">>>>
      [] provider = "cohere" -> <<<<"COHERE_API_KEY">>>>
      [] provider = "mistral" -> <<<<"MISTRAL_API_KEY">>>>
      [] provider = "groq" -> <<<<"GROQ_API_KEY">>>>
      [] provider = "together" -> <<<<"TOGETHER_API_KEY">>>>
      [] provider = "perplexity" -> <<<<"PERPLEXITY_API_KEY">>>>
      [] OTHER -> <<>>

\* vault.get(credId) on the credentials the vault holds.
vaultGet(held, credId) ==
    IF \E c \in held : c.id = credId
    THEN Field((CHOOSE c \in held : c.id = credId).value)
    ELSE NoString

\* childEnv[name] = value, for each name of a list.
RECURSIVE setAll(_, _, _)
setAll(env, names, value) ==
    IF names = <<>> THEN env
    ELSE setAll((Head(names) :> value) @@ env, Tail(names), value)

\* The loop of lines 462-488 from entry n of allEnvVars on: the environment of
\* the child, or the TypeError of a for-of over a value that is no list.
RECURSIVE buildFrom(_, _, _, _)
buildFrom(envVarMap, n, held, env) ==
    IF n > Len(envVarMap)
    THEN [threw |-> FALSE, env |-> env]
    ELSE LET credInfo == envVarMap[n].info
             result == vaultGet(held, credInfo.credId)
             named == (envVarMap[n].name :> result.value) @@ env
             provider == providerToLowerCase(credInfo.provider.value)
         IN  IF ~result.present
             THEN buildFrom(envVarMap, n + 1, held, env)
             ELSE IF ~credInfo.provider.present
             THEN buildFrom(envVarMap, n + 1, held, named)
             ELSE IF provider \in Inherited
             THEN [threw |-> TRUE, env |-> named]
             ELSE buildFrom(envVarMap, n + 1, held,
                            setAll(named, PROVIDER_ENV_VARS(provider), result.value))

\* The ids, providers and keys of the profiles, the credentials of the vault
\* and the environment of the launcher.
CredIds == {<<"a", "-", "i">>, <<"a", "_", "i">>}
Providers == {NoString} \cup {Field(p) : p \in {"Google", "custom", "constructor"}}
ProfileKeys ==
    {NoField, Field(<<"l", "i", "t">>), Field(<<"$", "{", "H", "O", "M", "E", "}">>),
     Field(LegacyOpen \o <<"A", "_", "I", "}">>)}
    \cup {Field(VaultPrefix \o id) : id \in CredIds}
ProfileNames == <<"first", "second", "third", "fourth">>
ProfileFiles ==
    UNION {{[n \in 1..len |-> Profile(ProfileNames[n], f[n][1], f[n][2])] :
                f \in [1..len -> Providers \X ProfileKeys]} : len \in 0..MaxProfiles}
HeldCredentials ==
    {held \in SUBSET {[id |-> <<"a", "-", "i">>, value |-> "secret1"],
                      [id |-> <<"a", "_", "i">>, value |-> "secret2"]} : TRUE}
ProcessEnv == <<"PATH">> :> "/usr/bin"

GatewayInit ==
    /\ launcher = <<>>
    /\ gateway \in
        {[stage |-> "start", version |-> 1, profiles |-> file, original |-> file,
          held |-> held, envVarMap |-> <<>>, written |-> <<>>, env |-> ProcessEnv] :
            file \in ProfileFiles, held \in HeldCredentials}

\* Lines 449-455: processAuthProfiles reads the file, deletes the reference
\* keys and, when it deleted one, writes the file again.
ProcessAuthProfiles ==
    /\ gateway.stage = "start"
    /\ LET done == processFrom(gateway.profiles, 1, <<>>)
       IN  gateway' = [gateway EXCEPT
                !.stage = "processed",
                !.profiles = done.profiles,
                !.envVarMap = done.envVarMap,
                !.written = IF done.profiles # gateway.profiles
                            THEN Append(@, [version |-> gateway.version,
                                            profiles |-> done.profiles])
                            ELSE @]
    /\ UNCHANGED <<now, proxyVars, vaultVars, sessionVars, textVars, launcher>>

\* Lines 457-488: childEnv is built from process.env and the vault; a TypeError
\* rejects startGateway.
BuildEnv ==
    /\ gateway.stage = "processed"
    /\ LET built == buildFrom(gateway.envVarMap, 1, gateway.held, gateway.env)
       IN  gateway' = [gateway EXCEPT
                !.stage = IF built.threw THEN "failed" ELSE "built",
                !.env = built.env]
    /\ UNCHANGED <<now, proxyVars, vaultVars, sessionVars, textVars, launcher>>


(***************************************************************************)
(* Part VI.  The stdio server of the proxy, line by line: every method of  *)
(*           createMcpHandler, request ids chosen by the client, and lines *)
(*           that are no request.                                          *)
(***************************************************************************)
\* JsonRpcRequestSchema, line 8: the ids a client sends (numbers; 0 is also the
\* id createStdioServer puts on its own error response).
RequestIds == {0, 1}
\* Line 9: method is any string; "ping" stands for every method the handler
\* does not know.
ServerMethods == {"tools/list", "resources/list", "tools/call", "ping"}
\* The number of {ref:...} references in the params of a tools/call.
RefCounts == {0, 1}

\* createMcpHandler, lines 157-163 and 218-222; createStdioServer, lines 246-251.
ResourcesResponseAsTools(id) ==
    [id |-> id, code |-> 0, message |-> <<"tools">>]
ResourcesResponse(id) ==
    [id |-> id, code |-> 0, message |-> <<"resources">>]
MethodNotFoundResponseIdZero(id) ==
    [id |-> 0, code |-> -32601, message |-> <<"Method not found">>]
MethodNotFoundResponse(id) ==
    [id |-> id, code |-> -32601, message |-> <<"Method not found">>]
InvalidRequestResponse ==
    [id |-> 0, code |-> -32600, message |-> <<"Invalid Request">>]

\* A line read from stdin: one that JSON.parse or JsonRpcRequestSchema.parse
\* throws on, or a request.
InvalidLine ==
    [valid |-> FALSE, id |-> 0, method |-> "", tool |-> "", refs |-> 0]
RequestLine(id, method, tool, refs) ==
    [valid |-> TRUE, id |-> id, method |-> method, tool |-> tool, refs |-> refs]
Lines ==
    {InvalidLine}
    \cup {RequestLine(id, method, "", 0) :
            id \in RequestIds, method \in ServerMethods \ {"tools/call"}}
    \cup {RequestLine(id, "tools/call", tool, refs) :
            id \in RequestIds, tool \in ToolNames, refs \in RefCounts}

\* The handler of one line: the line, where the handler stands, and history: the
\* stages it went through, the timestamp it recorded in the limiter (-1: none),
\* the credential lookups it made, the position of its response in stdout (0:
\* none), the number of responses written for it and the call that rejected.
Handler(line, pc, status, stages, recorded, exhausted) ==
    [line |-> line, pc |-> pc, status |-> status, stages |-> stages,
     recorded |-> recorded, exhausted |-> exhausted, lookups |-> 0,
     failed |-> "none", out |-> 0, written |-> 0]
Respond(h, position) ==
    [h EXCEPT !.pc = "done", !.out = position, !.written = @ + 1]

\* The policy of the server: rate_limit is any unsigned number.  The lines are
\* read within one window (the clock stands still; the sliding of the window is
\* Part VII).
ServerInit ==
    /\ policyConfig \in [rateLimit : 0..MaxLimit, rateLimitWindow : {MaxWindow},
                         blockedTools : {blockedTools}]
    /\ requests = [k \in ToolNames |-> <<>>]
    /\ calls = <<>>
    /\ auditLog = <<>>
    /\ stdout = <<>>

\* createStdioServer, rl.on('line'): the line is parsed and the handler runs to its
\* first suspension.  A line that does not parse, tools/list, resources/list and
\* an unknown method are answered without suspending; tools/call passes the
\* blocklist check and the rate check and suspends in logAudit or in
\* injectCredentials.
OnLine ==
    /\ Len(calls) < MaxReq
    /\ \E line \in Lines :
        LET position == Len(stdout) + 1
            tool == line.tool
            exhausted == ~RateLimiterCheck(IF tool = "" THEN "limited-tool" ELSE tool, now)
            answered(response) ==
                /\ calls' = Append(calls,
                        Respond(Handler(line, "done", "none", <<>>, -1, FALSE), position))
                /\ stdout' = Append(stdout, response)
                /\ UNCHANGED requests
        IN  IF ~line.valid THEN answered(InvalidRequestResponse)
            ELSE IF line.method = "tools/list" THEN answered(ListResponse(line.id))
            ELSE IF line.method = "resources/list" THEN answered(ResourcesResponse(line.id))
            ELSE IF line.method # "tools/call" THEN answered(MethodNotFoundResponse(line.id))
            ELSE IF IsBlocked(tool)
            THEN /\ calls' = Append(calls,
                        Handler(line, "audit", "blocked", <<"blocklist">>, -1, exhausted))
                 /\ UNCHANGED <<requests, stdout>>
            ELSE IF ~RateLimiterCheck(tool, now)
            THEN /\ requests' = RateLimiterAfter(tool, now)
                 /\ calls' = Append(calls,
                        Handler(line, "audit", "rate_limited", <<"blocklist", "rate">>,
                                -1, TRUE))
                 /\ UNCHANGED stdout
            ELSE /\ requests' = RateLimiterAfter(tool, now)
                 /\ calls' = Append(calls,
                        Handler(line, "inject", "success", <<"blocklist", "rate">>,
                                now, FALSE))
                 /\ UNCHANGED stdout
    /\ UNCHANGED <<now, launcherVars, policyConfig, auditLog, vaultVars, sessionVars, textVars>>

\* Lines 195-203: injectCredentials has walked the params, with one
\* credentialStore.get per reference; the result is serialised and redacted and
\* logAudit is called with status success.
Resolved(i) ==
    /\ calls[i].pc = "inject"
    /\ calls' = [calls EXCEPT ![i].pc = "audit",
                              ![i].lookups = calls[i].line.refs,
                              ![i].stages = @ \o <<"resolve", "redact">>]
    /\ UNCHANGED <<now, launcherVars, policyConfig, requests, auditLog, stdout, vaultVars, sessionVars, textVars>>

\* Line 195: a credentialStore.get of the walk rejects; the catch of the handler
\* answers (lines 223-232).
ResolveFails(i) ==
    /\ calls[i].pc = "inject" /\ calls[i].line.refs > 0
    /\ calls' = [calls EXCEPT ![i] = Respond([@ EXCEPT !.failed = "resolve",
                                                       !.lookups = 1,
                                                       !.stages = @ \o <<"resolve">>],
                                             Len(stdout) + 1)]
    /\ stdout' = Append(stdout, InternalErrorResponse(calls[i].line.id))
    /\ UNCHANGED <<now, launcherVars, policyConfig, requests, auditLog, vaultVars, sessionVars, textVars>>

\* logAudit, lines 134-139, has appended its line; the handler returns its
\* response and the stdio server writes it (line 244).
Audited(i) ==
    /\ calls[i].pc = "audit"
    /\ auditLog' = Append(auditLog,
            AuditLine(i, calls[i].line.tool, calls[i].status, now))
    /\ calls' = [calls EXCEPT ![i] = Respond([@ EXCEPT !.stages = @ \o <<"audit">>],
                                             Len(stdout) + 1)]
    /\ stdout' = Append(stdout,
            ResponseFor(calls[i].line.id, calls[i].line.tool, calls[i].status))
    /\ UNCHANGED <<now, launcherVars, policyConfig, requests, vaultVars, sessionVars, textVars>>

\* logAudit: mkdir or appendFile rejects; the catch of the handler answers.
AuditRejects(i) ==
    /\ calls[i].pc = "audit"
    /\ calls' = [calls EXCEPT ![i] = Respond([@ EXCEPT !.failed = "audit"],
                                             Len(stdout) + 1)]
    /\ stdout' = Append(stdout, InternalErrorResponse(calls[i].line.id))
    /\ UNCHANGED <<now, launcherVars, policyConfig, requests, auditLog, vaultVars, sessionVars, textVars>>


(***************************************************************************)
(* Part VII.  The RateLimiter class on its own: check() called for any key *)
(*            at any time.                                                 *)
(***************************************************************************)
\* One call of check(key): the key, Date.now() and the value returned.
CheckRecord(k, at, ok) == [key |-> k, at |-> at, ok |-> ok]

\* new RateLimiter(limit, windowMs), lines 52-58: the map is empty; limit and
\* windowMs are any unsigned numbers.
LimiterInit ==
    /\ policyConfig \in [rateLimit : 0..MaxLimit, rateLimitWindow : 0..MaxWindow,
                         blockedTools : {blockedTools}]
    /\ requests = [k \in ToolNames |-> <<>>]
    /\ calls = <<>>
    /\ auditLog = <<>>
    /\ stdout = <<>>

\* RateLimiter.check(key), lines 60-70.
Check(k) ==
    /\ Len(calls) < MaxChecks
    /\ calls' = Append(calls, CheckRecord(k, now, RateLimiterCheck(k, now)))
    /\ requests' = RateLimiterAfter(k, now)
    /\ UNCHANGED <<now, launcherVars, policyConfig, auditLog, stdout, vaultVars, sessionVars, textVars>>


(***************************************************************************)
(* Part VIII.  The session store under overlapping open() calls, with      *)
(*             close() and importFromPlaintext() called at any time.  In   *)
(*             this part scratch is the set of scratch directories that    *)
(*             exist, timers the set of interval timers that are set, and  *)
(*             flushes the open() calls that are suspended.                *)
(***************************************************************************)
\* The keys a vault file found on disk was written under; the store holds 1.
MasterKeys == {1, 2}
\* The session files of the vault file found, and those of a plaintext session.
StoredDirectory == {DirEntry(<<Letter>>, <<Letter>>)}
PlaintextDirectory == {DirEntry(<<Letter, Letter>>, <<Dot>>)}
StoredVaults ==
    {Absent} \cup
    {Holding(sessionEncrypt(gzip(packDirectory(StoredDirectory)), k, 0)) : k \in MasterKeys}

\* Lines 157-161: ramDir and flushTimer are null (0), _isOpen is false.
NewStore(flushIntervalMs) ==
    [ramDir |-> 0, flushTimer |-> 0, isOpen |-> FALSE,
     flushIntervalMs |-> flushIntervalMs, masterKey |-> 1]
ScratchDir(id, files) == [id |-> id, files |-> files]
existsSync(id) == \E d \in scratch : d.id = id
filesOf(id) == (CHOOSE d \in scratch : d.id = id).files
rmdir(id) == {d \in scratch : d.id # id}

\* A suspended open(): where it stands, the directory its mkdtemp made, and
\* history: whether the store was closed with no other call running when it
\* was called, and the vault file at that moment.
OpenCall(pc, dir, alone, vaultBefore) ==
    [pc |-> pc, dir |-> dir, alone |-> alone, vaultBefore |-> vaultBefore]
NoFailure == [dir |-> 0, alone |-> FALSE, vaultBefore |-> Absent]
NotClosingStore == [pc |-> "idle", flushed |-> FALSE, blob |-> NoBlob]

StoreInit ==
    /\ session \in {NewStore(ms) : ms \in FlushIntervals}
    /\ scratch = {}
    /\ vaultFile \in StoredVaults
    /\ tmpFile = Absent
    /\ timers = {}
    /\ flushes = <<>>
    /\ closing = NotClosingStore
    /\ trace = [ops |-> 0, mkdtemps |-> 0, intervals |-> 0, last |-> "new",
                failure |-> NoFailure]

\* open(), lines 201-207: the early return of an open store; otherwise mkdtemp is
\* called and open() suspends.
OpenStart ==
    /\ trace.ops < MaxStoreOps
    /\ IF AlreadyOpen(session)
       THEN /\ trace' = [trace EXCEPT !.ops = @ + 1, !.last = "open returned"]
            /\ UNCHANGED flushes
       ELSE /\ flushes' = Append(flushes,
                    OpenCall("mkdtemp", 0, flushes = <<>> /\ closing.pc = "idle",
                             vaultFile))
            /\ trace' = [trace EXCEPT !.ops = @ + 1, !.last = "open called"]
    /\ UNCHANGED <<now, launcherVars, proxyVars, vaultVars, textVars, session, scratch,
                   vaultFile, tmpFile, timers, closing>>

\* Lines 205-208: mkdtemp has made a new directory; it is assigned to ramDir and
\* chmod is called.
OpenMkdtemp(i) ==
    /\ flushes[i].pc = "mkdtemp"
    /\ LET id == trace.mkdtemps + 1
       IN  /\ scratch' = scratch \cup {ScratchDir(id, EmptyDir)}
           /\ session' = [session EXCEPT !.ramDir = id]
           /\ flushes' = [flushes EXCEPT ![i].pc = "chmod", ![i].dir = id]
           /\ trace' = [trace EXCEPT !.mkdtemps = id]
    /\ UNCHANGED <<now, launcherVars, proxyVars, vaultVars, textVars, vaultFile, tmpFile,
                   timers, closing>>

\* Lines 221-236: setInterval when the interval is positive, _isOpen = true, and
\* open() returns ramDir.
openReturns(i) ==
    LET timer == trace.intervals + 1
    IN  /\ IF StartsTimer(session.flushIntervalMs)
           THEN /\ session' = [session EXCEPT !.flushTimer = timer, !.isOpen = TRUE]
                /\ timers' = timers \cup {timer}
                /\ trace' = [trace EXCEPT !.intervals = timer, !.last = "open returned"]
           ELSE /\ session' = [session EXCEPT !.isOpen = TRUE]
                /\ trace' = [trace EXCEPT !.last = "open returned"]
                /\ UNCHANGED timers
        /\ flushes' = Remove(flushes, i)

\* open() rejects: nothing of what it did is undone.
openThrows(i) ==
    /\ flushes' = Remove(flushes, i)
    /\ trace' = [trace EXCEPT !.last = "open threw",
                              !.failure = [dir |-> flushes[i].dir,
                                           alone |-> flushes[i].alone,
                                           vaultBefore |-> flushes[i].vaultBefore]]
    /\ UNCHANGED <<session, timers>>

\* Lines 208-213: chmod of ramDir has resolved (it rejects when ramDir is null or
\* gone); without a vault file open() goes on to the timer, with one it calls
\* readFile.
OpenChmod(i) ==
    /\ flushes[i].pc = "chmod"
    /\ IF ~existsSync(session.ramDir) THEN openThrows(i)
       ELSE IF ~vaultFile.exists THEN openReturns(i)
       ELSE /\ flushes' = [flushes EXCEPT ![i].pc = "read"]
            /\ UNCHANGED <<session, timers, trace>>
    /\ UNCHANGED <<now, launcherVars, proxyVars, vaultVars, textVars, scratch, vaultFile,
                   tmpFile, closing>>

\* Lines 213-219: readFile has resolved; decrypt throws on a blob that does not
\* authenticate; the buffer is unpacked into what ramDir is now.
OpenUnpack(i) ==
    /\ flushes[i].pc = "read"
    /\ LET plain == sessionDecrypt(vaultFile.blob, session.masterKey)
           unpacked == unpackFrom(gunzip(plain.plaintext), 0, filesOf(session.ramDir))
       IN  IF ~plain.ok \/ ~existsSync(session.ramDir)
           THEN openThrows(i) /\ UNCHANGED scratch
           ELSE /\ scratch' = rmdir(session.ramDir)
                        \cup {ScratchDir(session.ramDir, unpacked.files)}
                /\ IF unpacked.threw THEN openThrows(i) ELSE openReturns(i)
    /\ UNCHANGED <<now, launcherVars, proxyVars, vaultVars, textVars, vaultFile, tmpFile,
                   closing>>

\* close(), lines 269-279: nothing on a closed store; otherwise the timer held
\* in flushTimer is cleared and flush() packs ramDir when it exists.
CloseStart ==
    /\ trace.ops < MaxStoreOps
    /\ closing.pc = "idle"
    /\ IF ~session.isOpen
       THEN /\ trace' = [trace EXCEPT !.ops = @ + 1, !.last = "close returned"]
            /\ UNCHANGED <<session, timers, closing>>
       ELSE /\ session' = [session EXCEPT !.flushTimer = 0]
            /\ timers' = timers \ {session.flushTimer}
            /\ closing' =
                IF existsSync(session.ramDir)
                THEN [pc |-> "flush", flushed |-> TRUE,
                      blob |-> sessionEncrypt(gzip(packDirectory(filesOf(session.ramDir))),
                                              session.masterKey, 0)]
                ELSE [pc |-> "flush", flushed |-> FALSE, blob |-> NoBlob]
            /\ trace' = [trace EXCEPT !.ops = @ + 1, !.last = "close called"]
    /\ UNCHANGED <<now, launcherVars, proxyVars, vaultVars, textVars, scratch, vaultFile,
                   tmpFile, flushes>>

\* Lines 279-287: the flush has written the vault file; the directory ramDir
\* names now is wiped and removed, ramDir and _isOpen are reset.
CloseFinish ==
    /\ closing.pc = "flush"
    /\ vaultFile' = IF closing.flushed THEN Holding(closing.blob) ELSE vaultFile
    /\ scratch' = rmdir(session.ramDir)
    /\ session' = [session EXCEPT !.ramDir = 0, !.isOpen = FALSE]
    /\ closing' = NotClosingStore
    /\ trace' = [trace EXCEPT !.last = "close returned"]
    /\ UNCHANGED <<now, launcherVars, proxyVars, vaultVars, textVars, tmpFile, timers,
                   flushes>>

\* importFromPlaintext(sourceDir), lines 294-323: throws on a directory without
\* files; otherwise packs, compresses, encrypts and writes the vault file.
ImportAnyTime ==
    /\ trace.ops < MaxStoreOps
    /\ \E sourceDir \in {EmptyDir, PlaintextDirectory} :
        IF readdirSync(sourceDir) = <<>>
        THEN /\ trace' = [trace EXCEPT !.ops = @ + 1, !.last = "import threw"]
             /\ UNCHANGED vaultFile
        ELSE /\ vaultFile' = Holding(sessionEncrypt(gzip(packDirectory(sourceDir)),
                                                    session.masterKey, 0))
             /\ trace' = [trace EXCEPT !.ops = @ + 1, !.last = "import"]
    /\ UNCHANGED <<now, launcherVars, proxyVars, vaultVars, textVars, session, scratch,
                   tmpFile, timers, flushes, closing>>


(***************************************************************************)
(* Part IX.  The walk of injectCredentials over nested values, as the      *)
(*           tools/call handler applies it to the params of a request.     *)
(***************************************************************************)
\* JSON values as trees: a string, a number, an array of values, an object with
\* its keys in order and the values of the keys.
StringNode(text) == [kind |-> "string", text |-> text, keys |-> <<>>, items |-> <<>>]
NumberNode == [kind |-> "number", text |-> <<>>, keys |-> <<>>, items |-> <<>>]
ArrayNode(items) == [kind |-> "array", text |-> <<>>, keys |-> <<>>, items |-> items]
ObjectNode(keys, items) == [kind |-> "object", text |-> <<>>, keys |-> keys, items |-> items]

\* Line 105, result[key] = ... on an object literal: the key __proto__ reaches the
\* setter of Object.prototype and makes no own property.
OwnKeys(keys) == {i \in 1..Len(keys) : keys[i] # "__proto__"}
RECURSIVE keep(_, _, _)
keep(seq, positions, i) ==
    IF i > Len(seq) THEN <<>>
    ELSE (IF i \in positions THEN <<seq[i]>> ELSE <<>>) \o keep(seq, positions, i + 1)

\* injectCredentials, lines 77-112: strings are resolved, arrays mapped, objects
\* rebuilt key by key, anything else returned as it is.
RECURSIVE injectNode(_, _)
injectNode(value, credentials) ==
    CASE value.kind = "string" -> StringNode(injectString(value.text, credentials))
      [] value.kind = "array" ->
            ArrayNode([i \in 1..Len(value.items) |->
                            injectNode(value.items[i], credentials)])
      [] value.kind = "object" ->
            ObjectNode(keep(value.keys, OwnKeys(value.keys), 1),
                       keep([i \in 1..Len(value.items) |->
                                injectNode(value.items[i], credentials)],
                            OwnKeys(value.keys), 1))
      [] OTHER -> value

\* The arguments of a call, around a text with references, and the params.
ArgumentShapes(t) ==
    {NumberNode,
     StringNode(t),
     ArrayNode(<<StringNode(t), NumberNode>>),
     ObjectNode(<<"k", "n">>, <<StringNode(t), NumberNode>>),
     ObjectNode(<<"k">>, <<ArrayNode(<<ObjectNode(<<"k">>, <<StringNode(t)>>)>>)>>),
     ObjectNode(<<"__proto__", "k">>, <<StringNode(t), NumberNode>>)}
ToolNameTexts == {ToolText, ToolText \o RefA}
WalkPieces == {<<"x">>, RefA}
ParamsNodes ==
    {ObjectNode(<<"name", "arguments">>, <<StringNode(n), a>>) :
        n \in ToolNameTexts,
        a \in UNION {ArgumentShapes(t) : t \in TextsOf(WalkPieces, MaxText)}}

\* A tools/call that passed the policy, and the store its references resolve in.
WalkInit ==
    /\ credentialStore \in
        {(CredA :> a) @@ (CredB :> Undefined) : a \in {Undefined, Plaintext(<<"s">>)}}
    /\ exchange \in {[stage |-> "params", params |-> p, injected |-> NumberNode] :
                        p \in ParamsNodes}

\* Line 194: injectedParams = await injectCredentials(req.params, credentialStore).
Walk ==
    /\ exchange.stage = "params"
    /\ exchange' = [exchange EXCEPT !.stage = "injected",
                        !.injected = injectNode(exchange.params, credentialStore)]
    /\ UNCHANGED <<now, launcherVars, proxyVars, vaultVars, sessionVars, credentialStore>>


(***************************************************************************)
(* Part X.  The catch of the tools/call handler: what an error thrown      *)
(*          inside the handler puts into the response.                     *)
(***************************************************************************)
\* The messages of the errors a credentialStore.get rejects with: texts that
\* may quote a stored value or a token.
StoredSecret == <<"p", "w">>
ErrorPieces == {<<"x">>, <<" ">>, <<"s", "k", "-">> \o Run(MinSk), StoredSecret}
ErrorMessages == TextsOf(ErrorPieces, MaxText)

\* Lines 223-232: the response of the catch; data is err.message.
InternalError(message) == [code |-> -32603, message |-> "Internal error", data |-> message]

\* A tools/call that passed the policy and is suspended in injectCredentials.
CatchInit ==
    /\ credentialStore = (CredA :> Plaintext(StoredSecret)) @@ (CredB :> Undefined)
    /\ exchange = [stage |-> "lookup", thrown |-> <<>>, error |-> InternalError(<<>>)]

\* Line 88: credentialStore.get rejects with an Error.
Reject ==
    /\ exchange.stage = "lookup"
    /\ \E message \in ErrorMessages :
        exchange' = [exchange EXCEPT !.stage = "thrown", !.thrown = message]
    /\ UNCHANGED <<now, launcherVars, proxyVars, vaultVars, sessionVars, credentialStore>>

\* Lines 223-232: the catch builds the response.
Catch ==
    /\ exchange.stage = "thrown"
    /\ exchange' = [exchange EXCEPT !.stage = "response",
                                    !.error = InternalError(exchange.thrown)]
    /\ UNCHANGED <<now, launcherVars, proxyVars, vaultVars, sessionVars, credentialStore>>


(***************************************************************************)
(* Part XI.  Runs of startGateway, one after the other, on the same        *)
(*           auth-profiles file: what each run reads, backs up, writes and *)
(*           hands to the child.  Two launchers are in the source: the     *)
(*           one that deletes the reference keys and passes the values in  *)
(*           the environment, and the one that writes the values into the  *)
(*           file and restores the file at cleanup.                        *)
(***************************************************************************)
\* const backupSuffix = '.openpaw-backup'; the first launcher has none.
backupSuffix == ".openpaw-backup"
NoBackup == [present |-> FALSE, suffix |-> "", profiles |-> <<>>]
BackupOf(profiles) == [present |-> TRUE, suffix |-> backupSuffix, profiles |-> profiles]

\* The files, and the vault, the runs start from.
RunCredential == [id |-> <<"a", "-", "i">>, value |-> <<"s", "1">>]
RunProviders == {NoString, Field("Google")}
RunKeys == {NoField, Field(<<"l", "i", "t">>), Field(VaultPrefix \o RunCredential.id)}
RunFiles ==
    UNION {{[n \in 1..len |-> Profile(ProfileNames[n], f[n][1], f[n][2])] :
                f \in [1..len -> RunProviders \X RunKeys]} : len \in 0..MaxProfiles}

\* The loop of lines 933-944 from profile n on: a reference whose credential
\* the vault holds is replaced by the value.
RECURSIVE resolveFrom(_, _, _, _)
resolveFrom(profiles, n, held, modified) ==
    IF n > Len(profiles)
    THEN [profiles |-> profiles, modified |-> modified]
    ELSE LET profile == profiles[n]
             text == profile.key.value
             result == IF profile.key.present /\ IsVaultReference(text)
                       THEN vaultGet(held, SubSeq(text, Len(VaultPrefix) + 1, Len(text)))
                       ELSE NoString
         IN  IF result.present
             THEN resolveFrom([profiles EXCEPT ![n].key = Field(result.value)],
                              n + 1, held, TRUE)
             ELSE resolveFrom(profiles, n + 1, held, modified)

RunsInit ==
    /\ launcher = <<>>
    /\ gateway \in
        {[variant |-> variant, run |-> 1, pc |-> "read",
          file |-> file, backup |-> NoBackup, first |-> file, held |-> held,
          original |-> file, data |-> file, modified |-> FALSE, envVarMap |-> <<>>,
          rewritten |-> FALSE, copies |-> 0, writes |-> 0, envs |-> <<>>] :
            variant \in {"delete", "restore"}, file \in RunFiles,
            held \in SUBSET {RunCredential}}

\* readFile, JSON.parse and the loop over the profiles (lines 359-391 and
\* 928-944): what happens in memory before the file is touched.
ReadProfiles ==
    /\ gateway.pc = "read"
    /\ LET deleted == processFrom(gateway.file, 1, <<>>)
           resolved == resolveFrom(gateway.file, 1, gateway.held, FALSE)
           modified == IF gateway.variant = "delete"
                       THEN deleted.profiles # gateway.file
                       ELSE resolved.modified
       IN  gateway' = [gateway EXCEPT
                !.original = gateway.file,
                !.data = IF gateway.variant = "delete"
                         THEN deleted.profiles ELSE resolved.profiles,
                !.envVarMap = IF gateway.variant = "delete"
                              THEN deleted.envVarMap ELSE <<>>,
                !.modified = modified,
                !.pc = CASE modified /\ gateway.variant = "restore" -> "copy"
                         [] modified /\ gateway.variant = "delete" -> "write"
                         [] ~modified /\ gateway.variant = "delete" -> "build"
                         [] OTHER -> "spawned"]
    /\ UNCHANGED <<now, proxyVars, vaultVars, sessionVars, textVars, launcher>>

\* Line 948: await copyFile(profilePath, profilePath + backupSuffix).
CopyFile ==
    /\ gateway.pc = "copy"
    /\ gateway' = [gateway EXCEPT !.backup = BackupOf(gateway.file),
                                  !.copies = 1, !.pc = "write"]
    /\ UNCHANGED <<now, proxyVars, vaultVars, sessionVars, textVars, launcher>>

\* Lines 397 and 950: await writeFile(profilePath, JSON.stringify(data)).
WriteFile ==
    /\ gateway.pc = "write"
    /\ gateway' = [gateway EXCEPT
            !.file = gateway.data, !.rewritten = TRUE, !.writes = 1,
            !.pc = IF gateway.variant = "delete" THEN "build" ELSE "spawned"]
    /\ UNCHANGED <<now, proxyVars, vaultVars, sessionVars, textVars, launcher>>

\* Lines 460-488: the first launcher builds childEnv and spawns the child.
BuildChildEnv ==
    /\ gateway.pc = "build"
    /\ LET built == buildFrom(gateway.envVarMap, 1, gateway.held, ProcessEnv)
       IN  gateway' = [gateway EXCEPT !.envs = Append(@, built.env), !.pc = "spawned"]
    /\ UNCHANGED <<now, proxyVars, vaultVars, sessionVars, textVars, launcher>>

\* cleanup: the first launcher only ends the child (lines 497-509); the
\* second restores each processed file, copyFile(backupPath, profilePath)
\* when the backup exists (lines 1033-1040 and 963-965).
Cleanup ==
    /\ gateway.pc = "spawned"
    /\ gateway' =
        IF gateway.variant = "restore" /\ gateway.modified /\ gateway.backup.present
        THEN [gateway EXCEPT !.file = gateway.backup.profiles, !.pc = "unlink"]
        ELSE [gateway EXCEPT !.pc = "ended"]
    /\ UNCHANGED <<now, proxyVars, vaultVars, sessionVars, textVars, launcher>>

\* Line 966: await unlink(backupPath).
Unlink ==
    /\ gateway.pc = "unlink"
    /\ gateway' = [gateway EXCEPT !.backup = NoBackup, !.pc = "ended"]
    /\ UNCHANGED <<now, proxyVars, vaultVars, sessionVars, textVars, launcher>>

\* The launcher is started again on the files the last run left.
StartAgain ==
    /\ gateway.pc = "ended"
    /\ gateway.run < MaxRuns
    /\ gateway' = [gateway EXCEPT
            !.run = @ + 1, !.pc = "read", !.data = gateway.file, !.modified = FALSE,
            !.envVarMap = <<>>, !.rewritten = FALSE, !.copies = 0, !.writes = 0]
    /\ UNCHANGED <<now, proxyVars, vaultVars, sessionVars, textVars, launcher>>


(***************************************************************************)
(* Part XII.  The launcher of packages/gateway with its credential proxy:  *)
(*            the connections of the proxy server and the callback of      *)
(*            proxyServer.close.  In this part the variable gateway holds  *)
(*            the proxy server.                                            *)
(***************************************************************************)
\* The proxy server after listen (lines 637-645): it accepts connections
\* until close is called on it.
ProxyServer(connections) == [connections |-> connections]

ShutdownInit ==
    /\ launcher = NewLauncher(TRUE)
    /\ gateway = ProxyServer(0)

\* The child opens a connection through HTTP_PROXY: a request (lines 330-480)
\* or a CONNECT tunnel (lines 492-580). A server that was closed accepts none.
Connect ==
    /\ launcher.phase = "running" /\ launcher.child = "running"
    /\ ~launcher.cleanedUp
    /\ gateway.connections < MaxConnections
    /\ gateway' = ProxyServer(gateway.connections + 1)
    /\ UNCHANGED <<now, proxyVars, vaultVars, sessionVars, textVars, launcher>>

\* A connection ends: one of its two ends closes it, and the sockets of a
\* child that has ended are closed with it.
Disconnect ==
    /\ launcher.phase # "exited"
    /\ gateway.connections > 0
    /\ gateway' = ProxyServer(gateway.connections - 1)
    /\ UNCHANGED <<now, proxyVars, vaultVars, sessionVars, textVars, launcher>>

\* Lines 659-661: proxyServer.close(() => resolve()) calls back when the
\* server holds no connection; cleanup goes on to the kill (663-666) and the
\* handler to process.exit.
CloseCallback ==
    /\ launcher.phase # "exited"
    /\ launcher.closeWait.active
    /\ gateway.connections = 0
    /\ launcher' = processExit(kill([launcher EXCEPT !.closeWait.active = FALSE]),
                               launcher.closeWait.code, launcher.closeWait.cause)
    /\ UNCHANGED <<now, proxyVars, vaultVars, sessionVars, textVars, gateway>>


ProxyNext ==
    \/ Arrive
    \/ \E i \in 1..Len(calls) : LookupFail(i)
    \/ \E i \in 1..Len(calls) : InjectDone(i)
    \/ \E i \in 1..Len(calls) : MkdirDone(i)
    \/ \E i \in 1..Len(calls) : AuditFail(i)
    \/ \E i \in 1..Len(calls) : AppendDone(i)
    \/ Tick

\* The stdio server of the proxy; the vault is left alone.
Init == now = 0 /\ LauncherIdle /\ ProxyInit /\ key = 1 /\ VaultIdle /\ SessionIdle /\ TextIdle
Spec == Init /\ [][ProxyNext]_vars

ProxyIdle ==
    /\ policyConfig = [rateLimit |-> 1, rateLimitWindow |-> 1,
                       blockedTools |-> blockedTools]
    /\ requests = [k \in ToolNames |-> <<>>]
    /\ calls = <<>>
    /\ auditLog = <<>>
    /\ stdout = <<>>

VaultNext ==
    \/ ImportBegin
    \/ DeleteMiss
    \/ DeleteBegin
    \/ SaveOpen
    \/ SaveWrite
    \/ SaveDone
    \/ SaveFail
    \/ Crash
    \/ Reopen

\* One vault and its file; the proxy is left alone.
VaultSpecInit == now = 0 /\ LauncherIdle /\ ProxyIdle /\ VaultInit /\ SessionIdle /\ TextIdle
VaultSpec == VaultSpecInit /\ [][VaultNext]_vars

\* The documents a vault can be opened on: no file, or any sequence of up to
\* MaxDocLen tokens, of version 1 or of a later one, with records that pass the
\* schema or do not.
SampleCredential(type) ==
    [id |-> generateCredentialId("openai", type, 0), service |-> "openai",
     type |-> type, encryptedValue |-> encrypt(0, 1, 0),
     createdAt |-> 0, updatedAt |-> 0]
DocumentTokens ==
    {Token("open", 1, NoCredential), Token("open", 2, NoCredential),
     Token("close", 0, NoCredential),
     Token("cred", 0, SampleCredential("api_key")),
     Token("cred", 0, SampleCredential("session"))}
Documents == UNION {[1..n -> DocumentTokens] : n \in 0..MaxDocLen}

\* createVault on a path that holds no file or any of the documents.
LoadSpecInit ==
    /\ now = 0 /\ LauncherIdle /\ ProxyIdle /\ SessionIdle /\ TextIdle
    /\ key \in Keys
    /\ store = <<>>
    /\ disk \in {NoFile} \cup {File(d) : d \in Documents}
    /\ vault = Op("idle", "new", NoId, 0, FALSE, "running", <<>>, NoFile, 0)
    /\ imported = <<>>
LoadSpec == LoadSpecInit /\ [][Reopen]_vars

SessionNext ==
    \/ Open
    \/ LibraryWrite
    \/ Flush
    \/ TimerTick
    \/ \E i \in 1..Len(flushes) : FlushWrite(i)
    \/ \E i \in 1..Len(flushes) : FlushRename(i)
    \/ Close
    \/ WipeOverwrite
    \/ WipeUnlink
    \/ CloseDone

\* One session store with its scratch directory and vault file.
SessionSpecInit == now = 0 /\ LauncherIdle /\ ProxyIdle /\ key = 1 /\ VaultIdle /\ TextIdle /\ SessionInit
SessionSpec == SessionSpecInit /\ [][SessionNext]_vars

\* A closed store on a vault directory that holds no vault file or one that
\* decrypts to any buffer of up to MaxBuf bytes; an import may come first, then the
\* store is opened.
Buffers == UNION {[1..n -> Bytes] : n \in 0..MaxBuf}
PackSpecInit ==
    /\ now = 0 /\ LauncherIdle /\ ProxyIdle /\ key = 1 /\ VaultIdle /\ TextIdle
    /\ session = NewSession(0)
    /\ scratch = NoScratch
    /\ vaultFile \in {Absent} \cup {Holding(sessionEncrypt(gzip(b), 1, 0)) : b \in Buffers}
    /\ tmpFile = Absent
    /\ timers = 0
    /\ flushes = <<>>
    /\ closing = NotClosing
    /\ trace = NoTrace
FirstImport == trace.ops = 0 /\ ImportFromPlaintext
FirstOpen == trace.last # "open" /\ Open
PackNext == FirstImport \/ FirstOpen
PackSpec == PackSpecInit /\ [][PackNext]_vars

\* redactTokens on one text, twice.
RedactNext == Redact \/ RedactAgain
RedactSpecInit ==
    /\ now = 0 /\ LauncherIdle /\ ProxyIdle /\ key = 1 /\ VaultIdle /\ SessionIdle
    /\ credentialStore = <<>>
    /\ RedactInit
RedactSpec == RedactSpecInit /\ [][RedactNext]_vars

\* injectCredentials on one value.
InjectSpecInit ==
    /\ now = 0 /\ LauncherIdle /\ ProxyIdle /\ key = 1 /\ VaultIdle /\ SessionIdle
    /\ InjectInit
InjectSpec == InjectSpecInit /\ [][Inject]_vars

\* One tools/call that passes the policy, from the request to the response.
CallNext == CallInject \/ CallReturn
CallSpecInit ==
    /\ now = 0 /\ LauncherIdle /\ ProxyIdle /\ key = 1 /\ VaultIdle /\ SessionIdle
    /\ CallInit
CallSpec == CallSpecInit /\ [][CallNext]_vars

\* The launcher from the registration of its handlers to its exit.
LauncherSpecInit ==
    /\ now = 0 /\ ProxyIdle /\ key = 1 /\ VaultIdle /\ SessionIdle /\ TextIdle
    /\ LauncherInit
LauncherNext ==
    \/ Spawn \/ Signal \/ Unhandled \/ ChildDies \/ ChildExit \/ ChildError
    \/ ProxyClosed \/ ExitHook
LauncherSpec == LauncherSpecInit /\ [][LauncherNext]_vars

\* The startup pipeline of the launcher on one auth-profiles file.
GatewayNext == ProcessAuthProfiles \/ BuildEnv
GatewaySpecInit ==
    /\ now = 0 /\ ProxyIdle /\ key = 1 /\ VaultIdle /\ SessionIdle /\ TextIdle
    /\ GatewayInit
GatewaySpec == GatewaySpecInit /\ [][GatewayNext]_vars

ServerNext ==
    \/ OnLine
    \/ \E i \in 1..Len(calls) : Resolved(i)
    \/ \E i \in 1..Len(calls) : ResolveFails(i)
    \/ \E i \in 1..Len(calls) : Audited(i)
    \/ \E i \in 1..Len(calls) : AuditRejects(i)
ServerSpecInit ==
    now = 0 /\ LauncherIdle /\ ServerInit /\ key = 1 /\ VaultIdle /\ SessionIdle /\ TextIdle
ServerSpec == ServerSpecInit /\ [][ServerNext]_vars

LimiterNext ==
    \/ \E k \in ToolNames : Check(k)
    \/ Tick
LimiterSpecInit ==
    now = 0 /\ LauncherIdle /\ LimiterInit /\ key = 1 /\ VaultIdle /\ SessionIdle /\ TextIdle
LimiterSpec == LimiterSpecInit /\ [][LimiterNext]_vars

StoreNext ==
    \/ OpenStart
    \/ \E i \in 1..Len(flushes) : OpenMkdtemp(i)
    \/ \E i \in 1..Len(flushes) : OpenChmod(i)
    \/ \E i \in 1..Len(flushes) : OpenUnpack(i)
    \/ CloseStart
    \/ CloseFinish
    \/ ImportAnyTime
StoreSpecInit ==
    now = 0 /\ LauncherIdle /\ ProxyIdle /\ key = 1 /\ VaultIdle /\ TextIdle /\ StoreInit
StoreSpec == StoreSpecInit /\ [][StoreNext]_vars

WalkSpecInit ==
    /\ now = 0 /\ LauncherIdle /\ ProxyIdle /\ key = 1 /\ VaultIdle /\ SessionIdle
    /\ WalkInit
WalkSpec == WalkSpecInit /\ [][Walk]_vars

CatchNext == Reject \/ Catch
CatchSpecInit ==
    /\ now = 0 /\ LauncherIdle /\ ProxyIdle /\ key = 1 /\ VaultIdle /\ SessionIdle
    /\ CatchInit
CatchSpec == CatchSpecInit /\ [][CatchNext]_vars

\* Runs of the launcher, one after the other, on one auth-profiles file.
RunsNext ==
    \/ ReadProfiles \/ CopyFile \/ WriteFile \/ BuildChildEnv \/ Cleanup \/ Unlink
    \/ StartAgain
RunsSpecInit ==
    /\ now = 0 /\ ProxyIdle /\ key = 1 /\ VaultIdle /\ SessionIdle /\ TextIdle
    /\ RunsInit
RunsSpec == RunsSpecInit /\ [][RunsNext]_vars

\* The launcher with its proxy server.  What the launcher does by itself is
\* fair: the lookup of the binary returns, the event loop delivers the exit of
\* the child and the callback of close, and the sockets of a child that has
\* ended are closed.  Signals, errors, the end of the child and what the child
\* does with its connections are not.
ShutdownNext ==
    \/ Spawn \/ Signal \/ Unhandled \/ ChildDies \/ ChildExit \/ ChildError
    \/ ExitHook \/ Connect \/ Disconnect \/ CloseCallback
ShutdownSpecInit ==
    /\ now = 0 /\ ProxyIdle /\ key = 1 /\ VaultIdle /\ SessionIdle /\ TextIdle
    /\ ShutdownInit
ShutdownSpec ==
    /\ ShutdownSpecInit
    /\ [][ShutdownNext]_vars
    /\ WF_vars(Spawn)
    /\ WF_vars(ChildExit)
    /\ WF_vars(CloseCallback)
    /\ WF_vars(launcher.child # "running" /\ Disconnect)


(***************************************************************************)
(* Claims about the tool proxy.                                            *)
(***************************************************************************)
CallIds == {i \in 1..Len(calls) : calls[i].method = "tools/call"}
AuditLinesOf(i) == {a \in 1..Len(auditLog) : auditLog[a].req = i}
ResponsesOf(i) == {r \in 1..Len(stdout) : stdout[r].id = i}
Answered(i, response) ==
    /\ Cardinality(ResponsesOf(i)) = 1
    /\ \A r \in ResponsesOf(i) : stdout[r] = response
AuditedOnce(i, status) ==
    /\ Cardinality(AuditLinesOf(i)) = 1
    /\ \A a \in AuditLinesOf(i) :
        /\ auditLog[a].status = status
        /\ auditLog[a].tool = calls[i].tool
        /\ auditLog[a].method = "tools/call"
        /\ auditLog[a].timestamp >= 0
Dist(a, b) == IF a >= b THEN a - b ELSE b - a

\* The calls that passed the rate check never hold more than rateLimit calls to
\* one tool whose timestamps lie pairwise less than rateLimitWindow apart.
AcceptedWithinLimit ==
    \A tool \in ToolNames :
        \A S \in SUBSET {i \in CallIds : calls[i].tool = tool /\ calls[i].passedAt >= 0} :
            (\A i, j \in S : Dist(calls[i].passedAt, calls[j].passedAt)
                                < policyConfig.rateLimitWindow)
            => Cardinality(S) <= policyConfig.rateLimit

\* The calls that arrived while rateLimit accepted calls to their tool were still
\* inside the window.
OverLimit == {i \in CallIds : calls[i].inWindow >= policyConfig.rateLimit}

BlockedCalls == {i \in CallIds : calls[i].tool \in policyConfig.blockedTools}
NoSuccessResult(i) == \A r \in ResponsesOf(i) : stdout[r].code # 0

\* C2 as stated: a call to a blocked tool is always answered -32000 'Tool <name> is
\* blocked by policy', never with a success result, and appends exactly one audit
\* record with status blocked.
C2_BlockedAsStated ==
    \A i \in BlockedCalls :
        /\ NoSuccessResult(i)
        /\ calls[i].pc = "done" =>
            /\ Answered(i, BlockedResponse(i, calls[i].tool))
            /\ AuditedOnce(i, "blocked")

\* C2 amended: a call to a blocked tool is never answered with a success result;
\* it is answered -32000 'Tool <name> is blocked by policy' and appends exactly
\* one audit record with status blocked unless its audit write fails, in which
\* case it is answered -32603.
C2_Blocked ==
    \A i \in BlockedCalls :
        /\ NoSuccessResult(i)
        /\ calls[i].pc = "done" =>
            IF calls[i].auditFailed
            THEN Answered(i, InternalErrorResponse(i))
            ELSE /\ Answered(i, BlockedResponse(i, calls[i].tool))
                 /\ AuditedOnce(i, "blocked")

C2_Witness ==
    \E i \in BlockedCalls :
        /\ calls[i].pc = "done"
        /\ Answered(i, BlockedResponse(i, calls[i].tool))
        /\ AuditedOnce(i, "blocked")

\* C3: every finished tools/call, whatever its outcome, has appended exactly one
\* audit record with timestamp, method, tool and status; a call that ended in a
\* handler error is answered with a structured error and audited with status error.
C3_EveryCallAudited ==
    \A i \in CallIds :
        calls[i].pc = "done" =>
            /\ Cardinality(ResponsesOf(i)) = 1
            /\ IF calls[i].status = "error" \/ calls[i].auditFailed
               THEN AuditedOnce(i, "error")
               ELSE AuditedOnce(i, calls[i].status)

\* C4: the audit records are in the file in the order in which their requests
\* arrived at the proxy.
C4_AuditInArrivalOrder ==
    \A a, b \in 1..Len(auditLog) : a < b => auditLog[a].req < auditLog[b].req

\* C5: each audit record carries a timestamp that is not earlier than the
\* timestamp of the record written before it.
C5_TimestampsMonotone ==
    \A a \in 1..Len(auditLog) :
        a > 1 => auditLog[a - 1].timestamp <= auditLog[a].timestamp

(***************************************************************************)
(* Claims about the credential vault.                                      *)
(***************************************************************************)
\* What a vault opened on the file holds is what this vault holds.
DiskEqualsStore ==
    /\ Loads(disk)
    /\ load(disk) = store
    /\ list(load(disk)) = list(store)
    /\ \A id \in CredentialIds : get(load(disk), id, key) = get(store, id, key)

\* C6: after an interruption of save() (a crash, or an I/O failure surfaced to the
\* caller) the vault file is the file as it was before the call or parses to the
\* document after the call, never a truncated or partial document.
C6_SaveAtomic ==
    (vault.op \in {"import", "delete"} /\ vault.outcome \in {"threw", "crashed"})
    => \/ disk = vault.preDisk
       \/ disk.exists /\ Parses(disk.content) /\ Parsed(disk.content) = store

\* C7: the ids of the stored credential records are pairwise distinct.
C7_IdsDistinct ==
    \A i, j \in 1..Len(store) : i # j => store[i].id # store[j].id

\* C8: for every import that returned a record whose id has not been deleted since,
\* get(id) returns a record with that id and the imported value; list() holds one
\* public record, without encryptedValue, per stored credential, in import order.
C8_ImportGetList ==
    /\ \A n \in 1..Len(imported) :
        LET got == get(store, imported[n][1], key)
        IN  /\ got.found
            /\ got.credential.id = imported[n][1]
            /\ got.value.ok
            /\ got.value.plaintext = imported[n][2]
    /\ Len(list(store)) = Len(store)
    /\ \A i \in 1..Len(store) :
        /\ "encryptedValue" \notin DOMAIN list(store)[i]
        /\ list(store)[i].id = store[i].id
    /\ \A n, m \in 1..Len(imported) :
        n < m => findIndex(list(store), imported[n][1])
                    <= findIndex(list(store), imported[m][1])

\* C9: after every completed import or delete the vault document on disk equals the
\* in-memory store: a vault opened on it with the same key lists the same records
\* in the same order and get returns the same values.
C9_Persisted ==
    (vault.pc = "idle" /\ vault.op \in {"import", "delete"}
        /\ vault.outcome = "returned")
    => DiskEqualsStore

UnknownVersion(content) ==
    \E i \in 1..Len(content) : content[i].tok = "open" /\ content[i].version # 1
FailsSchema(content) ==
    \E i \in 1..Len(content) :
        /\ content[i].tok = "cred"
        /\ content[i].cred.type \notin {"api_key", "oauth_token", "password", "certificate"}

\* C11: opening a vault whose file is missing yields an empty vault; opening a vault
\* whose document has an unknown version or fails schema validation fails with an
\* error and yields no usable vault and no partial contents.
C11_Open ==
    vault.op = "open" =>
        /\ ~disk.exists => (vault.outcome = "returned" /\ vault.pc = "idle" /\ store = <<>>)
        /\ (disk.exists /\ (UnknownVersion(disk.content) \/ FailsSchema(disk.content)))
            => (vault.outcome = "threw" /\ vault.pc = "unusable" /\ store = <<>>)

C11_Witness ==
    /\ vault.op = "open" /\ vault.outcome = "threw"
    /\ disk.exists /\ Len(disk.content) = 3
    /\ disk.content[1] = Token("open", 2, NoCredential)
    /\ disk.content[2].tok = "cred" /\ ~FailsSchema(disk.content)
    /\ disk.content[3].tok = "close"

VaultHolds(dir) ==
    /\ vaultFile.exists
    /\ sessionDecrypt(vaultFile.blob, session.masterKey).ok
    /\ gunzip(sessionDecrypt(vaultFile.blob, session.masterKey).plaintext)
            = packDirectory(dir)

\* C13: after close() of an open store has returned, the vault file decrypts to
\* exactly the files (names and contents) that were in the scratch directory when
\* close ran, whatever writes, flush() calls and timer flushes came before it or
\* overlapped it.
C13_CloseConsistent == trace.closed => VaultHolds(trace.atClose)

C15_OpenAgain ==
    [][/\ timers' <= 1
       /\ (session.isOpen /\ trace'.last = "open" /\ trace'.ops = trace.ops + 1)
            => /\ trace'.opened = session.ramDir
               /\ session' = session
               /\ scratch' = scratch
               /\ trace'.mkdtemps = trace.mkdtemps
               /\ timers' = timers
               /\ vaultFile' = vaultFile /\ tmpFile' = tmpFile]_vars

C15_Witness ==
    /\ session.isOpen /\ trace.last = "open" /\ trace.ops >= 3
    /\ trace.mkdtemps = 1 /\ trace.opened = session.ramDir
    /\ timers = 1 /\ scratch.files # EmptyDir

\* C16: with flush interval zero no periodic flush ever runs and close() still
\* performs a final flush, so that the vault reflects the scratch directory; with
\* a positive interval a flush is invoked on every timer tick while the store is
\* open, and there is no tick after close.
C16_FlushInterval ==
    /\ [](session.flushIntervalMs = 0 => (trace.ticks = 0 /\ timers = 0))
    /\ []((session.flushIntervalMs = 0 /\ trace.closed) => VaultHolds(trace.atClose))
    /\ [](~session.isOpen => timers = 0)
    /\ [][trace'.ticks # trace.ticks
            => /\ session.isOpen /\ session.flushIntervalMs > 0
               /\ Len(flushes') = Len(flushes) + 1
               /\ flushes'[Len(flushes')].origin = "timer"
               /\ gunzip(flushes'[Len(flushes')].blob.ciphertext)
                    = packDirectory(scratch.files)]_vars

\* The complete entries of a packed buffer, in order.
RECURSIVE entriesFrom(_, _)
entriesFrom(packed, offset) ==
    IF offset + LengthCells > Len(packed)
    THEN <<>>
    ELSE LET nameLen == packed[offset + 1]
             dataAt == offset + LengthCells + nameLen + LengthCells
         IN  IF dataAt > Len(packed) \/ dataAt + packed[dataAt] > Len(packed)
             THEN <<>>
             ELSE <<DirEntry(SubSeq(packed, offset + LengthCells + 1,
                                    offset + LengthCells + nameLen),
                             SubSeq(packed, dataAt + 1, dataAt + packed[dataAt]))>>
                  \o entriesFrom(packed, dataAt + packed[dataAt])
\* A name that holds a separator, is a parent reference or starts with a dot.
Unsafe(name) ==
    \/ \E i \in 1..Len(name) : name[i] = Slash
    \/ name = <<Dot, Dot>>
    \/ (name # <<>> /\ name[1] = Dot)
\* The buffer the vault file of the initial state decrypts to, once opened.
Crafted == gunzip(sessionDecrypt(vaultFile.blob, session.masterKey).plaintext)
OpenedCrafted == trace.last = "open" /\ trace.source = EmptyDir /\ vaultFile.exists

\* Only direct children of the destination directory are written.
OnlyDirectChildren ==
    OpenedCrafted => \A e \in scratch.files : ~Unsafe(e.name) /\ e.name # <<>>

\* C17: for any packed buffer unpackToDirectory writes only direct children of the
\* destination directory; every entry whose name holds a separator, is a parent
\* reference or starts with a dot is skipped and never written, and the remaining
\* entries are still unpacked.
C17_Unpack ==
    OpenedCrafted =>
        LET entries == entriesFrom(Crafted, 0)
        IN  /\ \A e \in scratch.files : ~Unsafe(e.name) /\ e.name # <<>>
            /\ \A e \in scratch.files : \E i \in 1..Len(entries) : entries[i] = e
            /\ \A i \in 1..Len(entries) :
                ~Unsafe(entries[i].name)
                => \E j \in i..Len(entries) :
                    /\ entries[j].name = entries[i].name
                    /\ entries[j] \in scratch.files

(***************************************************************************)
(* Claims about reference resolution and redaction.                        *)
(***************************************************************************)
\* The text with every reference whose id the store resolves replaced by the
\* stored plaintext, every other character kept.
RECURSIVE resolvedFrom(_, _, _)
resolvedFrom(text, p, credentials) ==
    LET found == {q \in p..Len(text) :
                    /\ refAt(text, q) > 0
                    /\ credentialStoreGet(credentials, refIdAt(text, q)).defined}
    IN  IF found = {}
        THEN SubSeq(text, p, Len(text))
        ELSE LET q == CHOOSE r \in found : \A t \in found : r <= t
             IN  SubSeq(text, p, q - 1)
                    \o credentialStoreGet(credentials, refIdAt(text, q)).value
                    \o resolvedFrom(text, q + refAt(text, q), credentials)

\* C18: for every string reached by the walk, the result is the input with every
\* occurrence of {ref:<id>} whose id the credential store resolves replaced by the
\* stored plaintext (all occurrences, also of one reference), and every
\* occurrence whose id is not in the store left unchanged.
C18_Resolved ==
    exchange.stage = "injected" =>
        /\ exchange.injected.kind = exchange.params.kind
        /\ exchange.injected.text = resolvedFrom(exchange.params.text, 1, credentialStore)
        /\ Len(exchange.injected.items) = Len(exchange.params.items)
        /\ \A i \in 1..Len(exchange.params.items) :
            exchange.injected.items[i]
                = resolvedFrom(exchange.params.items[i], 1, credentialStore)

HasMatch(text) ==
    \E k \in DOMAIN TOKEN_PATTERNS : \E p \in 1..Len(text) :
        matchAt(text, p, TOKEN_PATTERNS[k]) > 0
Substituted(text, credentials) ==
    {credentialStoreGet(credentials, refIdAt(text, p)).value :
        p \in {q \in 1..Len(text) :
                /\ refAt(text, q) > 0
                /\ credentialStoreGet(credentials, refIdAt(text, q)).defined}}

\* C20: for every successful tools/call the serialized response holds no match
\* of a declared secret pattern: a value substituted for a reference that
\* matches a pattern does not appear in the response (only [REDACTED] does),
\* and when no substituted value and nothing else of the argument matches a
\* pattern, the argument is returned with the values substituted, unchanged.
C20_ResponseRedacted ==
    exchange.stage = "response" /\ exchange.response.kind = "result" =>
        LET argument == exchange.params.items[2]
            returned == exchange.response.params.items[2]
            substituted == Substituted(argument, credentialStore)
        IN  /\ ~HasMatch(stringifyResponse(exchange.response))
            /\ \A v \in substituted : HasMatch(v) => indexOf(returned, v) = 0
            /\ (~HasMatch(argument) /\ \A v \in substituted : ~HasMatch(v))
                  => returned = resolvedFrom(argument, 1, credentialStore)

(***************************************************************************)
(* Claims about the launcher.                                              *)
(***************************************************************************)
\* C21: under any interleaving of SIGINT, SIGTERM, child exit, child error,
\* uncaught exception, unhandled rejection and the exit hook, the cleanup body
\* (terminating the child, releasing resources) is executed at most once,
\* whether entered through cleanup or through cleanupSync.
C21_CleanupOnce == launcher.bodies <= 1 /\ launcher.kills <= 1

\* The launcher has exited after cleanup was called more than once (a handler,
\* then the exit hook), the body having run once and ended the child.
C21_Witness ==
    /\ launcher.phase = "exited"
    /\ launcher.entries >= 2
    /\ launcher.bodies = 1
    /\ launcher.kills = 1

\* C22: on SIGINT or SIGTERM the launcher exits with status 0 and only after
\* the child has exited; when the child exits by itself with status c, the
\* launcher exits with status c.
C22_ExitAfterChild ==
    launcher.phase = "exited" =>
        /\ launcher.exitCause = "signal" =>
                /\ launcher.exitCode = 0
                /\ launcher.childAtExit # "running"
        /\ (launcher.exitCause = "childExit" /\ launcher.childCode # NoCode) =>
                launcher.exitCode = launcher.childCode

\* The profiles of the file as it was found whose key is a vault reference, the
\* reference id of such a profile and the provider-canonical names of a profile.
Referring == {n \in 1..Len(gateway.original) :
                /\ gateway.original[n].key.present
                /\ IsVaultReference(gateway.original[n].key.value)}
referenceId(n) ==
    SubSeq(gateway.original[n].key.value, Len(VaultPrefix) + 1,
           Len(gateway.original[n].key.value))
canonicalNames(n) ==
    IF gateway.original[n].provider.present
    THEN PROVIDER_ENV_VARS(providerToLowerCase(gateway.original[n].provider.value))
    ELSE <<>>

\* C23: for every profile whose key is openpaw:vault:<id>: if the credential is
\* in the vault, the environment of the child holds the synthetic variable
\* OPENPAW_<ID> with the plaintext and every provider-canonical variable of the
\* profile's provider with the plaintext; if the credential is missing, the
\* synthetic variable is not set.
C23_ChildEnv ==
    gateway.stage \in {"built", "failed"} =>
        \A n \in Referring :
            LET result == vaultGet(gateway.held, referenceId(n))
                synthetic == credIdToEnvVar(referenceId(n))
            IN  IF result.present
                THEN /\ gateway.stage = "built"
                     /\ synthetic \in DOMAIN gateway.env
                     /\ gateway.env[synthetic] = result.value
                     /\ \A k \in 1..Len(canonicalNames(n)) :
                            /\ canonicalNames(n)[k] \in DOMAIN gateway.env
                            /\ gateway.env[canonicalNames(n)[k]] = result.value
                ELSE synthetic \notin DOMAIN gateway.env

\* The profiles of the file as it is on disk, and the forms of a key: a vault
\* reference, ${ENVNAME} for any name, and ${OPENPAW_<NAME>}.
profilesOnDisk ==
    IF gateway.written = <<>>
    THEN gateway.original
    ELSE gateway.written[Len(gateway.written)].profiles
ReferenceForm(text) ==
    /\ Len(text) >= Len(VaultPrefix)
    /\ SubSeq(text, 1, Len(VaultPrefix)) = VaultPrefix
DollarForm(text) ==
    Len(text) >= 3 /\ text[1] = "$" /\ text[2] = "{" /\ text[Len(text)] = "}"
SyntheticDollarForm(text) ==
    /\ DollarForm(text)
    /\ Len(text) >= 2 + Len(EnvPrefix)
    /\ SubSeq(text, 3, 2 + Len(EnvPrefix)) = EnvPrefix

\* Every field of every profile but the key, and the other top-level fields,
\* are on disk as they were found; a key is as it was found or deleted, so
\* nothing that was decrypted from the vault is in the file.
OthersPreserved ==
    /\ Len(profilesOnDisk) = Len(gateway.original)
    /\ \A w \in 1..Len(gateway.written) : gateway.written[w].version = gateway.version
    /\ \A n \in 1..Len(gateway.original) :
        /\ profilesOnDisk[n].name = gateway.original[n].name
        /\ profilesOnDisk[n].type = gateway.original[n].type
        /\ profilesOnDisk[n].provider = gateway.original[n].provider
        /\ profilesOnDisk[n].key \in {gateway.original[n].key, NoField}
        /\ (gateway.original[n].key.present
                /\ ~ReferenceForm(gateway.original[n].key.value)
                /\ ~DollarForm(gateway.original[n].key.value))
            => profilesOnDisk[n].key = gateway.original[n].key

LineIds == 1..Len(calls)
ValidLines == {i \in LineIds : calls[i].line.valid}
ToolCalls == {i \in ValidLines : calls[i].line.method = "tools/call"}
Finished(i) == calls[i].pc = "done"
ResponseOf(i) == stdout[calls[i].out]

\* C25: every response carries the id of the request it answers: a line is never
\* answered twice, every response line answers exactly one line, and a finished
\* valid request with id i has exactly one response, whose id is i, whatever its
\* method and outcome.
C25_ResponseIds ==
    /\ \A r \in 1..Len(stdout) :
        Cardinality({i \in LineIds : calls[i].out = r}) = 1
    /\ \A i \in LineIds :
        /\ calls[i].written <= 1
        /\ calls[i].written = 1 <=> calls[i].out # 0
        /\ Finished(i) => calls[i].written = 1
    /\ \A i \in ValidLines :
        calls[i].written = 1 => ResponseOf(i).id = calls[i].line.id

C25_Witness ==
    \E i, j \in ValidLines :
        /\ i # j /\ Finished(i) /\ Finished(j)
        /\ calls[i].line.id = 1 /\ calls[j].line.id = 1
        /\ calls[i].line.method = "ping" /\ ResponseOf(i).id = 1
        /\ calls[j].failed = "resolve" /\ ResponseOf(j).id = 1

\* The line a step of the server reads, when the step is the arrival of a line.
LineRead == Len(calls') = Len(calls) + 1
NewLine == calls'[Len(calls')].line
StateUntouched == requests' = requests /\ auditLog' = auditLog
AnsweredAtOnce(code, message) ==
    /\ Len(stdout') = Len(stdout) + 1
    /\ stdout'[Len(stdout')].id = NewLine.id
    /\ stdout'[Len(stdout')].code = code
    /\ stdout'[Len(stdout')].message = message
    /\ calls'[Len(calls')].pc = "done"

\* C26: a request whose method is not tools/list, resources/list or tools/call is
\* answered -32601 and changes neither the rate-limit state nor the audit log;
\* tools/list and resources/list return the declared lists and change neither.
C26_OtherMethods ==
    [][LineRead /\ NewLine.valid /\ NewLine.method # "tools/call" =>
        /\ StateUntouched
        /\ CASE NewLine.method = "tools/list" -> AnsweredAtOnce(0, <<"tools">>)
             [] NewLine.method = "resources/list" -> AnsweredAtOnce(0, <<"resources">>)
             [] OTHER -> AnsweredAtOnce(-32601, <<"Method not found">>)]_vars

\* An unknown method was answered -32601 while the limiter held a
\* timestamp and the audit log a line.
C26_Witness ==
    /\ auditLog # <<>>
    /\ requests["limited-tool"] # <<>>
    /\ \E i \in ValidLines :
        /\ i > 1 /\ Finished(i)
        /\ calls[i].line.method = "ping"
        /\ ResponseOf(i).code = -32601

\* The order of the stages of a tools/call: the blocklist check first, the rate
\* check second, and resolution, redaction and the audit of a call that passed
\* after both.
StageRank(stage) ==
    CASE stage = "blocklist" -> 1
      [] stage = "rate" -> 2
      [] OTHER -> 3
InOrder(stages) ==
    /\ Len(stages) >= 1 => stages[1] = "blocklist"
    /\ \A a, b \in 1..Len(stages) :
        a < b => /\ StageRank(stages[a]) <= StageRank(stages[b])
                 /\ StageRank(stages[a]) < 3 => StageRank(stages[a]) < StageRank(stages[b])
BlockedLines == {i \in ToolCalls : calls[i].line.tool \in policyConfig.blockedTools}
RateLimitedLines == {i \in ToolCalls : calls[i].status = "rate_limited"}
OrderKept ==
    /\ \A i \in ToolCalls : InOrder(calls[i].stages)
    /\ \A i \in ToolCalls :
        calls[i].status = "success" =>
            \A a \in 1..Len(calls[i].stages) :
                StageRank(calls[i].stages[a]) = 3 => a >= 3 /\ calls[i].stages[2] = "rate"
    /\ \A i \in BlockedLines :
        /\ calls[i].recorded = -1
        /\ "rate" \notin {calls[i].stages[a] : a \in 1..Len(calls[i].stages)}
    /\ \A tool \in policyConfig.blockedTools : requests[tool] = <<>>
    /\ \A i \in RateLimitedLines :
        /\ calls[i].lookups = 0
        /\ "resolve" \notin {calls[i].stages[a] : a \in 1..Len(calls[i].stages)}

\* C30 as stated: the blocklist check precedes the rate check, which precedes
\* resolution, redaction and the success audit; a blocked call never records a
\* timestamp and is answered -32000 even when the rate limit of its tool is
\* exhausted; a rate-limited call never triggers a credential lookup.
C30_OrderAsStated ==
    /\ OrderKept
    /\ \A i \in BlockedLines : Finished(i) => ResponseOf(i).code = -32000

\* C30 amended: as stated, except that a blocked call whose audit write fails is
\* answered -32603; it is never answered 429 and never with a result.
C30_Order ==
    /\ OrderKept
    /\ \A i \in BlockedLines :
        Finished(i) =>
            ResponseOf(i).code = IF calls[i].failed = "audit" THEN -32603 ELSE -32000

\* A blocked call was answered -32000 while the rate limit of its tool was
\* exhausted, and a rate-limited call finished without a lookup although its
\* params hold a reference.
C30_Witness ==
    /\ \E i \in BlockedLines :
        /\ calls[i].exhausted /\ Finished(i)
        /\ ResponseOf(i).code = -32000
    /\ \E i \in RateLimitedLines :
        /\ Finished(i) /\ calls[i].line.refs > 0
        /\ ResponseOf(i).code = 429

\* The checks made for key k, in order, and the ring they leave when they are
\* the only checks ever made.
ChecksOf(k) == SelectSeq(calls, LAMBDA c : c.key = k)
InsideWindow(ring, t) ==
    SelectSeq(ring, LAMBDA ts : t - ts < policyConfig.rateLimitWindow)
RECURSIVE RingAlone(_, _)
RingAlone(checks, n) ==
    IF n = 0 THEN <<>>
    ELSE LET before == InsideWindow(RingAlone(checks, n - 1), checks[n].at)
         IN  IF Len(before) < policyConfig.rateLimit
             THEN Append(before, checks[n].at)
             ELSE RingAlone(checks, n - 1)
OutcomeAlone(checks, n) ==
    Len(InsideWindow(RingAlone(checks, n - 1), checks[n].at)) < policyConfig.rateLimit
CheckOf(k) ==
    /\ Len(calls') = Len(calls) + 1
    /\ calls'[Len(calls')].key = k

\* C27: rate limits are tracked per key: a check for one key leaves the
\* timestamps of every other key as they are, and the outcome of every check
\* for key k and the timestamps held for k are those the checks for k alone
\* produce.
C27_PerKey ==
    /\ [][\A k \in ToolNames : CheckOf(k) =>
            \A j \in ToolNames \ {k} : requests'[j] = requests[j]]_vars
    /\ [](\A k \in ToolNames :
            /\ requests[k] = RingAlone(ChecksOf(k), Len(ChecksOf(k)))
            /\ \A n \in 1..Len(ChecksOf(k)) :
                ChecksOf(k)[n].ok = OutcomeAlone(ChecksOf(k), n))

\* One key is at its limit and rejected while the other key, checked in between,
\* is accepted.
C27_Witness ==
    \E a, b, c \in 1..Len(calls) :
        /\ a < b /\ b < c
        /\ calls[a].key = "limited-tool" /\ calls[a].ok
        /\ calls[b].key = "dangerous-tool" /\ calls[b].ok
        /\ calls[c].key = "limited-tool" /\ ~calls[c].ok
        /\ requests["dangerous-tool"] # <<>>

\* The counted calls of key k: the checks that were accepted; those of them that
\* are less than rateLimitWindow old at check n.
CountedInside(n) ==
    {m \in 1..(n - 1) :
        /\ calls[m].key = calls[n].key /\ calls[m].ok
        /\ calls[n].at - calls[m].at < policyConfig.rateLimitWindow}
\* The entries of the ring of the key last checked that are older than
\* rateLimitWindow at that check.
OldEntries ==
    IF calls = <<>> THEN {}
    ELSE LET last == calls[Len(calls)]
         IN  {a \in 1..Len(requests[last.key]) :
                last.at - requests[last.key][a] > policyConfig.rateLimitWindow}
Slides ==
    /\ OldEntries = {}
    /\ \A n \in 1..Len(calls) :
        calls[n].ok <=> Cardinality(CountedInside(n)) < policyConfig.rateLimit

\* C28 as stated: the window slides: each check leaves no entry older than the
\* window in the ring of its key, a check is accepted exactly when fewer than
\* rateLimit counted calls of its key are less than rateLimitWindow old, and a
\* check with no counted call inside the window is never rejected.
C28_WindowSlidesAsStated ==
    /\ Slides
    /\ \A n \in 1..Len(calls) : CountedInside(n) = {} => calls[n].ok

\* C28 amended: as stated, the last part for a rate limit of at least 1 (with a
\* rate limit of 0 every check is rejected).
C28_WindowSlides ==
    /\ Slides
    /\ \A n \in 1..Len(calls) :
        CountedInside(n) = {} => (calls[n].ok <=> policyConfig.rateLimit >= 1)

\* A key was rejected and, later, accepted again while one of its counted calls
\* was still inside the window.
C28_Witness ==
    \E m, n \in 1..Len(calls) :
        /\ m < n /\ calls[m].key = calls[n].key
        /\ ~calls[m].ok /\ CountedInside(m) # {}
        /\ calls[n].ok /\ CountedInside(n) # {}
        /\ calls[n].at > calls[m].at

\* The step is the arrival of a tools/call that reaches the rate check.
ReachesRateCheck ==
    /\ LineRead /\ NewLine.valid /\ NewLine.method = "tools/call"
    /\ NewLine.tool \notin policyConfig.blockedTools
RingAfter == requests'[NewLine.tool]

\* C29: the rate check of every tools/call that reaches it records the current
\* timestamp into the ring of the tool, a rejected call included, and the call
\* is rejected exactly when the ring then holds more than rateLimit entries.
C29_TimestampRecorded ==
    [][ReachesRateCheck =>
        /\ \E a \in 1..Len(RingAfter) : RingAfter[a] = now
        /\ Len(RingAfter) = Len(validTimestamps(NewLine.tool, now)) + 1
        /\ calls'[Len(calls')].status = "rate_limited"
                <=> Len(RingAfter) > policyConfig.rateLimit]_vars

\* C31: the stdio server dispatches one request at a time: the handler of a
\* later line does not start before the handler of every earlier line has
\* finished and written its response, so the responses are written in the order
\* of the requests.
C31_OneAtATime ==
    /\ \A i, j \in LineIds : i < j => Finished(i)
    /\ \A i, j \in LineIds :
        i < j /\ calls[i].written = 1 /\ calls[j].written = 1
            => calls[i].out < calls[j].out

(***************************************************************************)
(* Claims about the exclusion of the session store operations.             *)
(***************************************************************************)
\* C32: open, flush and close of one store are mutually exclusive: no two
\* executions of flush() overlap, whether started by the timer, by a call or by
\* close(); no flush of the timer or of a call runs while close() runs; and a
\* flush started later never moves its file onto the vault file while a flush
\* started earlier is still to write (the earlier one would write after it).
C32_FlushExclusive ==
    /\ [](Len(flushes) <= 1)
    /\ [](closing.pc # "idle" =>
            \A i \in 1..Len(flushes) : flushes[i].origin = "close")
    /\ [][\A i \in 2..Len(flushes) : flushes' # Remove(flushes, i)]_vars

\* The step is a call of importFromPlaintext that returned.
Imports == trace'.ops = trace.ops + 1 /\ trace'.last \in {"import", "import threw"}

\* C33: importFromPlaintext requires the store to be closed: called on an open
\* store it does not replace the vault file; and it never opens the store: no
\* scratch directory, no timer, the store object as it was.
C33_ImportClosedOnly ==
    [][Imports =>
        /\ session.isOpen => vaultFile' = vaultFile
        /\ session' = session /\ scratch' = scratch /\ timers' = timers]_vars

\* The step is an open() that rejects, called on a closed store with no other
\* call running, and no other call has started since.
OpenFails ==
    /\ trace'.last = "open threw" /\ trace.last = "open called"
    /\ trace'.failure.alone
    /\ Len(flushes) = 1 /\ closing.pc = "idle"

\* C34: when open() fails the store is left closed as before the call: isOpen is
\* false, no scratch directory made by the failed call remains, no timer is
\* running, sessionDir is not available (ramDir is null) and the vault file is
\* unchanged.
C34_FailedOpenClosed ==
    [][OpenFails =>
        /\ ~session'.isOpen
        /\ ~\E d \in scratch' : d.id = trace'.failure.dir
        /\ timers' = {}
        /\ session'.ramDir = 0
        /\ vaultFile' = trace'.failure.vaultBefore]_vars

\* C39: for any interleaving of open() calls at most one scratch directory and
\* at most one flush timer belong to the store, and once close() has returned
\* with no call running no scratch directory and no timer is left.
C39_OneScratchOneTimer ==
    /\ Cardinality(scratch) <= 1
    /\ Cardinality(timers) <= 1
    /\ (trace.last = "close returned" /\ flushes = <<>> /\ closing.pc = "idle"
            /\ ~session.isOpen)
        => scratch = {} /\ timers = {}

(***************************************************************************)
(* Claims about the walk of the params.                                    *)
(***************************************************************************)
fieldOf(object, name) ==
    object.items[CHOOSE i \in 1..Len(object.keys) : object.keys[i] = name]
\* Two values differ in their strings only: same kinds, same keys in the same
\* order, same lengths, same leaves that are no strings.
RECURSIVE sameShape(_, _)
sameShape(a, b) ==
    /\ a.kind = b.kind
    /\ a.keys = b.keys
    /\ Len(a.items) = Len(b.items)
    /\ a.kind # "string" => a.text = b.text
    /\ \A i \in 1..Len(a.items) : i <= Len(b.items) => sameShape(a.items[i], b.items[i])

\* C35: reference resolution walks the arguments value only: the fields of params
\* outside arguments (such as name) come through without substitution, and within
\* the walk non-string leaves, object keys, key order and array lengths are
\* preserved.
C35_ArgumentsOnly ==
    exchange.stage = "injected" =>
        /\ exchange.injected.keys = exchange.params.keys
        /\ fieldOf(exchange.injected, "name") = fieldOf(exchange.params, "name")
        /\ sameShape(fieldOf(exchange.params, "arguments"),
                     fieldOf(exchange.injected, "arguments"))

\* C36: an internal-error response (-32603) never holds a secret in its data
\* field: neither a match of a declared secret pattern nor the value of a
\* stored credential.
C36_NoSecretInData ==
    exchange.stage = "response" =>
        /\ ~HasMatch(exchange.error.data)
        /\ \A id \in DOMAIN credentialStore :
            credentialStore[id].defined
                => indexOf(exchange.error.data, credentialStore[id].value) = 0

(***************************************************************************)
(* Claims about the runs of the launcher on one auth-profiles file.        *)
(***************************************************************************)
\* The content the running launcher read is on disk, in the file or in its
\* backup.
Recoverable ==
    \/ gateway.file = gateway.original
    \/ gateway.backup.present /\ gateway.backup.profiles = gateway.original

\* C37: before the launcher rewrites an auth-profiles file it writes a backup
\* of the original next to it, so that from the start of the rewrite on the
\* original content is recoverable from disk; a file that needs no change is
\* neither backed up nor rewritten.
C37_BackupFirst ==
    /\ gateway.rewritten => Recoverable
    /\ gateway.pc = "write" => gateway.backup.present /\ gateway.backup.profiles = gateway.file
    /\ gateway.pc \notin {"read"} /\ ~gateway.modified
        => gateway.copies = 0 /\ gateway.writes = 0 /\ gateway.file = gateway.original

\* The references of the file the first run found whose credential the vault
\* holds.
MigratedProfiles ==
    {n \in 1..Len(gateway.first) :
        /\ gateway.first[n].key.present
        /\ IsVaultReference(gateway.first[n].key.value)
        /\ vaultGet(gateway.held,
                    SubSeq(gateway.first[n].key.value, Len(VaultPrefix) + 1,
                           Len(gateway.first[n].key.value))).present}

\* C38: launching is repeatable.  For a profile migrated to a vault reference
\* every run of the launcher on the same files, the first and each later one,
\* puts the variable of the credential into the environment of the child, and
\* a run on rewritten files yields the environment of the first run.
C38_Repeatable ==
    \A r \in 1..Len(gateway.envs) :
        /\ gateway.envs[r] = gateway.envs[1]
        /\ \A n \in MigratedProfiles :
            LET text == gateway.first[n].key.value
                credId == SubSeq(text, Len(VaultPrefix) + 1, Len(text))
                name == credIdToEnvVar(credId)
            IN  /\ name \in DOMAIN gateway.envs[r]
                /\ gateway.envs[r][name] = vaultGet(gateway.held, credId).value

(***************************************************************************)
(* Claims about the shutdown of the launcher with a proxy.                 *)
(***************************************************************************)
\* A SIGINT or SIGTERM has reached the launcher: its handler is suspended in
\* cleanup, or it has made the launcher exit.
SignalReceived ==
    \/ launcher.closeWait.cause = "signal"
    \/ launcher.exitCause = "signal"

\* C40: shutdown makes progress.  Once the launcher has received SIGINT or
\* SIGTERM, the child is eventually sent a termination signal (unless it has
\* ended by itself) and the launcher eventually exits, also when connections
\* through the proxy are open at that moment.
C40_ShutdownProgress ==
    SignalReceived ~>
        /\ launcher.phase = "exited"
        /\ launcher.kills > 0 \/ launcher.child # "running"

====
